---------------------------- MODULE Spec2Model ----------------------------
(***************************************************************************)
(* Model of the COS configuration charm (src/src/charm.py): one unit of    *)
(* the application, its workload container, the peer relation's            *)
(* application data bag, the repo folder on the shared storage, and the    *)
(* event handlers that all funnel into _common_exit_hook.                  *)
(*                                                                         *)
(* Python strings that the code inspects (the marker file, the repo URL,   *)
(* the stored hash) are sequences of one-character strings.  Every handler *)
(* is an operator from a state record (the unit's world plus a log of what *)
(* the handler did) to a state record; the actions at the end apply them.  *)
(***************************************************************************)
EXTENDS Integers, Sequences, FiniteSets, TLC

\* ------------------------------------------------------------------ bounds
\* Number of distinct commit hashes git-sync may check out.
NumHashes == 2

\* Longest marker text drawn character by character.
MaxMarkerLen == 3

\* Largest git_depth drawn for the command line.
MaxDepth == 2

\* Longest run of items after the "//" of a secret URL drawn item by item.
MaxUrlLen == 3

\* ------------------------------------------------------------ text helpers
\* Python's None, distinct from every string (strings hold 1-character items).
None == <<"None">>

\* Characters str.strip() removes.
Whitespace == {" ", "\n"}

RECURSIVE LStrip(_)
LStrip(t) == IF t = <<>> \/ Head(t) \notin Whitespace THEN t ELSE LStrip(Tail(t))

RECURSIVE RStrip(_)
RStrip(t) ==
    IF t = <<>> \/ t[Len(t)] \notin Whitespace THEN t ELSE RStrip(SubSeq(t, 1, Len(t) - 1))

\* str.strip()
Strip(t) == RStrip(LStrip(t))

\* bool(x) of an Optional[str]
Truthy(x) == x # None /\ x # <<>>

SetMax(S) == CHOOSE x \in S : \A y \in S : y <= x

SetMin(S) == CHOOSE x \in S : \A y \in S : x <= y

\* Variant: the group is the text before that slash.
HashRegexGroup_directory(contents) ==
    LET slashes == {i \in 2..(Len(contents) - 1) : contents[i] = "/"}
    IN  IF (\E i \in 1..Len(contents) : contents[i] = "\n") \/ slashes = {}
        THEN None
        ELSE SubSeq(contents, 1, SetMax(slashes) - 1)

\* re.match(".+/(.+)$", contents): "." matches anything but a newline, both
\* ".+" are greedy, so the slash is the last one that still leaves a character
\* on each side.  The contents were stripped, so "$" is the end of the text.
\* None when there is no match, group(1) otherwise.
HashRegexGroup(contents) ==
    LET slashes == {i \in 2..(Len(contents) - 1) : contents[i] = "/"}
    IN  IF (\E i \in 1..Len(contents) : contents[i] = "\n") \/ slashes = {}
        THEN None
        ELSE SubSeq(contents, SetMax(slashes) + 1, Len(contents))

\* re.findall(r"@(.+?)[:/]", repo): the first match's group, a lazy run of at
\* least one non-newline character after an "@" up to the next ":" or "/".
\* None when findall returns the empty list.
RemoteRegexFirst(repo) ==
    LET ends(i) == {j \in (i + 2)..Len(repo) :
                      /\ repo[j] \in {":", "/"}
                      /\ \A k \in (i + 1)..(j - 1) : repo[k] # "\n"}
        ats == {i \in 1..Len(repo) : repo[i] = "@" /\ ends(i) # {}}
    IN  IF ats = {} THEN None
        ELSE LET i == SetMin(ats) IN SubSeq(repo, i + 1, SetMin(ends(i)) - 1)

\* ------------------------------------------------------- program constants
\* COSConfigCharm._hash_placeholder = "failed to fetch hash"
_hash_placeholder ==
    <<"f", "a", "i", "l", "e", "d", " ", "t", "o", " ",
      "f", "e", "t", "c", "h", " ", "h", "a", "s", "h">>

_ssh_key_file_name == "/run/cos-config-ssh-key.priv"

_known_hosts_file == "/etc/git-secret/known_hosts"

\* The value written under "reinit_without_topology_dropdowns".
Done == <<"D", "o", "n", "e">>

MaintenanceStatus(msg) == [name |-> "maintenance", message |-> msg]

BlockedStatus(msg) == [name |-> "blocked", message |-> msg]

ActiveStatus == [name |-> "active", message |-> <<>>]

\* ------------------------------------------------------------ input domains
HashChars == <<"a", "b", "c", "d", "e">>

\* The commit hashes git-sync can check out.
Hashes == {<<HashChars[i]>> : i \in 1..NumHashes}

\* The marker (the ".git" file of the repo folder) as git-sync writes it:
\* "gitdir: ./<hash>\n".
GitDir(h) == <<"g", ":", " ", ".", "/">> \o h \o <<"\n">>

\* A missing or unreadable marker file (open() raises OSError).
NoFile == <<"NoFile">>

\* A marker file whose bytes are not valid text: f.read() raises
\* UnicodeDecodeError, a ValueError, which is not an OSError.
Undecodable == <<"Undecodable">>

\* The marker text of the unit tests, "hash 012345" cut short: no slash in it.
Garbage == <<"h", "a", "s", "h", " ", "0">>

\* A marker whose last path segment is the text of the placeholder.
PlaceholderMarker == <<"x", "/">> \o _hash_placeholder

\* The characters marker texts are drawn from: a letter, the slash, a newline.
MarkerChars == {"a", "/", "\n"}

\* The marker file states of SpecHash: every text of up to MaxMarkerLen
\* characters, the markers git-sync writes, the markers above, a file that
\* cannot be opened and a file that cannot be decoded.
MarkerTexts ==
    UNION {[1..k -> MarkerChars] : k \in 0..MaxMarkerLen}
    \cup {GitDir(h) : h \in Hashes}
    \cup {Garbage, PlaceholderMarker, NoFile, Undecodable}

\* The marker file states of Spec.
MarkerContents == {NoFile} \cup {GitDir(h) : h \in Hashes}

\* The repo folder: absent, or present with some marker file state.
RepoStates ==
    {[exists |-> FALSE, marker |-> NoFile]} \cup
    {[exists |-> TRUE, marker |-> m] : m \in MarkerContents}

\* git_repo values: an https URL without a remote to scan, an SSH URL.
RepoHttps == <<"h", ":", "/", "/", "x", "/", "r">>

RepoSsh == <<"g", "@", "x", ":", "r">>

\* config.yaml's defaults as far as the code shows them: git_repo unset.
DefaultConfig ==
    [git_repo |-> <<>>, git_branch |-> <<>>, git_rev |-> <<>>, git_depth |-> 1,
     git_ssh_key |-> <<>>, git_ssh_key_secret |-> <<>>]

\* The configurations the events of Spec draw from: nothing set, only a branch
\* set, a repo set, a repo set that needs an SSH key.
Configs ==
    {DefaultConfig,
     [DefaultConfig EXCEPT !.git_branch = <<"m">>],
     [DefaultConfig EXCEPT !.git_repo = RepoHttps],
     [DefaultConfig EXCEPT !.git_repo = RepoSsh, !.git_ssh_key = <<"k">>]}

\* What the application data bag of the peer relation may hold.
StoredHashes == {None, _hash_placeholder} \cup Hashes

AppDatas == [hash : StoredHashes, reinit_without_topology_dropdowns : {None, Done}]

EmptyAppData == [hash |-> None, reinit_without_topology_dropdowns |-> None]


\* ------------------------------------------------------------------- state
VARIABLES
    canConnect,   \* container.can_connect()
    peerRel,      \* model.get_relation("replicas") is not None
    isLeader,     \* unit.is_leader()
    config,       \* self.config
    appData,      \* relation.data[self.app] of the peer relation
    repo,         \* the repo folder (self._repo_path) and its ".git" marker
    knownHosts,   \* /etc/git-secret/known_hosts in the container
    keyFile,      \* /run/cos-config-ssh-key.priv in the container
    status,       \* self.unit.status
    plan,         \* the container's Pebble plan (the services of its layers)
    tick,         \* 0 after an environment step, alternates 1, 2 on every handler
    last          \* what the most recent event handler observed and did, forgotten
                  \* when the container, the leadership, the peer data or the
                  \* config change under the unit between two events

vars == <<canConnect, peerRel, isLeader, config, appData, repo, knownHosts, keyFile,
          status, plan, tick, last>>

Collaborators == {"prometheus", "loki", "grafana"}

NoCalls == [c \in Collaborators |-> 0]

\* SecretGetter._status before any failure: None.
NoStatus == [name |-> "none", message |-> <<>>]

\* The log of one event handler.
NewLog ==
    [stage   |-> "none",     \* where _common_exit_hook ended, "none" if it did not run
     cur     |-> None,       \* the hash _update_hash_and_rel_data read from the marker
     stored  |-> None,       \* the stored hash it compared against
     leader  |-> FALSE,      \* unit.is_leader() at its change check (line 396)
     calls   |-> NoCalls,    \* reinitialize calls per collaborator
     wrote   |-> {},         \* keys written to the peer application data
     wiped   |-> FALSE,      \* shutil.rmtree(self._repo_path) was called
     execs   |-> <<>>,       \* commands passed to container.exec
     syncs   |-> <<>>,       \* how each _exec_sync_repo ended: "ok" or "SyncError"
     pushed  |-> {},         \* paths passed to container.push
     removed |-> {},         \* paths passed to container.remove_path
     raised  |-> "none",     \* the exception that escaped the handler
     version |-> None,       \* the value passed to unit.set_workload_version
     failed  |-> None,       \* the message of event.fail
     results |-> None,       \* the value of event.set_results' "git-sync-stdout"
     lookups |-> <<>>,       \* the ids passed to model.get_secret
     value   |-> None,       \* what SecretGetter.get_value returned
     getter  |-> NoStatus,   \* SecretGetter.status() after the call
     order   |-> <<>>,       \* the is_leader() answers, reinitialize calls and peer
                             \* data writes of the handler, in the order they happened
     related |-> {},         \* the collaborators a relation existed to while it ran
     found   |-> NoStatus]   \* unit.status as the handler found it, where recorded

\* What the environment does while one handler runs.  flip = p > 0: leadership
\* changes hands just before the handler's p-th look at unit.is_leader().
\* sync, sync2: how the first and the second git-sync of the handler end.
\* scan: how ssh-keyscan ends.  version: how "/git-sync -version" ends.
\* related: the collaborators a relation exists to while the handler runs.
NoEnv ==
    [flip |-> 0, sync |-> None, sync2 |-> None, scan |-> None, version |-> None,
     related |-> {}]

\* No exception is in flight.
NoExc == [type |-> "none", message |-> <<>>, details |-> None]

\* The text of an error (str(e), "Exited with code N."), whatever it says.
ErrorText == <<"...">>

SyncError(message, details) ==
    [type |-> "SyncError", message |-> <<"Sync error: ">> \o message, details |-> details]

\* The UnicodeDecodeError of reading the marker file.
DecodeError == [type |-> "UnicodeDecodeError", message |-> ErrorText, details |-> None]

\* ops.pebble errors that the handlers do not convert.
PebbleError(type) == [type |-> type, message |-> ErrorText, details |-> None]

\* The record the handlers work on.
World(env) ==
    [canConnect |-> canConnect, peerRel |-> peerRel, isLeader |-> isLeader,
     config |-> config, appData |-> appData, repo |-> repo, knownHosts |-> knownHosts,
     keyFile |-> keyFile, status |-> status, plan |-> plan,
     env |-> env, looks |-> 0, exc |-> NoExc, ret |-> None,
     log |-> [NewLog EXCEPT !.related = env.related]]

\* self.unit.is_leader(): the environment may have moved leadership since the
\* last look.  Returns the world after the look; the answer is its isLeader.
Look(s) ==
    LET n == s.looks + 1
        answer == IF s.env.flip = n THEN ~s.isLeader ELSE s.isLeader
    IN  [s EXCEPT !.looks = n,
                  !.isLeader = answer,
                  !.log.order = Append(@, <<"is_leader", IF answer THEN "True" ELSE "False">>)]

\* ------------------------------------------------------------ the program
\* Mutant: the charm counts as configured whatever git_repo is.
_configured_always(s) == TRUE

_configured(s) == Truthy(s.config.git_repo)

\* Mutant: the stripped contents of the marker file are the hash.
_get_current_hash_whole_contents(s) ==
    IF ~s.canConnect THEN _hash_placeholder
    ELSE IF s.repo.marker = NoFile THEN _hash_placeholder
    ELSE IF s.repo.marker = <<"Undecodable">> THEN <<"UnicodeDecodeError">>
    ELSE IF Strip(s.repo.marker) = <<>> THEN _hash_placeholder
    ELSE Strip(s.repo.marker)

\* The value that stands for _get_current_hash raising UnicodeDecodeError.
UnicodeDecodeError == <<"UnicodeDecodeError">>

_get_current_hash(s) ==
    IF ~s.canConnect THEN _hash_placeholder
    ELSE IF s.repo.marker = NoFile THEN _hash_placeholder
    ELSE IF s.repo.marker = Undecodable THEN UnicodeDecodeError
    ELSE LET contents == Strip(s.repo.marker)
             group == HashRegexGroup(contents)
         IN  IF group # None THEN group ELSE _hash_placeholder

_stored_get(s, key) == IF s.peerRel THEN s.appData[key] ELSE None

\* Mutant: the write without the leadership guard.
_stored_set_unguarded(s, key, value) ==
    LET s1 == Look(s)
    IN  IF s1.peerRel
        THEN [s1 EXCEPT !.appData[key] = value, !.log.wrote = @ \cup {key},
                        !.log.order = Append(@, <<"write", key>>)]
        ELSE s1

\* Variant: storing the placeholder removes the key instead of writing it.
_stored_set_placeholder_removes(s, key, value) ==
    LET s1 == Look(s)
        kept == IF value = _hash_placeholder THEN None ELSE value
    IN  IF ~s1.isLeader THEN s1
        ELSE IF s1.peerRel
             THEN [s1 EXCEPT !.appData[key] = kept, !.log.wrote = @ \cup {key},
                             !.log.order = Append(@, <<"write", key>>)]
             ELSE s1

\* Variant: the write relies on the answer unit.is_leader() gave earlier in
\* the pass.
_stored_set_without_recheck(s, key, value) ==
    IF ~s.isLeader THEN s
    ELSE IF s.peerRel
         THEN [s EXCEPT !.appData[key] = value, !.log.wrote = @ \cup {key},
                        !.log.order = Append(@, <<"write", key>>)]
         ELSE s

\* Variant: a key that holds a value already is not written again.
_stored_set_first_write_only(s, key, value) ==
    LET s1 == Look(s)
    IN  IF ~s1.isLeader THEN s1
        ELSE IF s1.peerRel /\ s1.appData[key] = None
             THEN [s1 EXCEPT !.appData[key] = value, !.log.wrote = @ \cup {key},
                             !.log.order = Append(@, <<"write", key>>)]
             ELSE s1

_stored_set(s, key, value) ==
    LET s1 == Look(s)
    IN  IF ~s1.isLeader THEN s1
        ELSE IF s1.peerRel
             THEN [s1 EXCEPT !.appData[key] = value, !.log.wrote = @ \cup {key},
                             !.log.order = Append(@, <<"write", key>>)]
             ELSE s1

\* prom_rules_provider._reinitialize_alert_rules(),
\* loki_rules_provider._reinitialize_alert_rules(),
\* grafana_dashboards_provider._reinitialize_dashboard_data(inject_dropdowns=False)
\* Variant: a collaborator is called only when a relation to it exists.
Reinitialize_only_related(s, c) ==
    IF c \in s.env.related
    THEN [s EXCEPT !.log.calls[c] = @ + 1, !.log.order = Append(@, <<"call", c>>)]
    ELSE s

Reinitialize(s, c) ==
    [s EXCEPT !.log.calls[c] = @ + 1, !.log.order = Append(@, <<"call", c>>)]

\* Mutant: a stored hash that was never written counts as the placeholder.
_update_hash_none_is_placeholder(s) ==
    LET current_hash == _get_current_hash(s)
        got == _stored_get(s, "hash")
        stored_hash == IF got = None THEN _hash_placeholder ELSE got
        s1 == IF current_hash # stored_hash THEN Look(s) ELSE s
        s2 == [s1 EXCEPT !.log.cur = current_hash, !.log.stored = got,
                         !.log.leader = s1.isLeader]
    IN  IF current_hash # stored_hash /\ s2.isLeader
        THEN LET s3 == Reinitialize(Reinitialize(Reinitialize(s2,
                           "prometheus"), "loki"), "grafana")
                 s4 == _stored_set(s3, "reinit_without_topology_dropdowns", Done)
             IN  _stored_set(s4, "hash", current_hash)
        ELSE IF ~Truthy(_stored_get(s2, "reinit_without_topology_dropdowns"))
        THEN _stored_set(Reinitialize(s2, "grafana"),
                         "reinit_without_topology_dropdowns", Done)
        ELSE s2

\* Mutant: a change from one real hash to another is stored but not republished.
_update_hash_quiet_between_hashes(s) ==
    LET current_hash == _get_current_hash(s)
        stored_hash == _stored_get(s, "hash")
        s1 == IF current_hash # stored_hash THEN Look(s) ELSE s
        s2 == [s1 EXCEPT !.log.cur = current_hash, !.log.stored = stored_hash,
                         !.log.leader = s1.isLeader]
    IN  IF current_hash # stored_hash /\ s2.isLeader
        THEN LET s3 == IF current_hash \in Hashes /\ stored_hash \in Hashes
                       THEN s2
                       ELSE Reinitialize(Reinitialize(Reinitialize(s2,
                                "prometheus"), "loki"), "grafana")
                 s4 == _stored_set(s3, "reinit_without_topology_dropdowns", Done)
             IN  _stored_set(s4, "hash", current_hash)
        ELSE IF ~Truthy(_stored_get(s2, "reinit_without_topology_dropdowns"))
        THEN _stored_set(Reinitialize(s2, "grafana"),
                         "reinit_without_topology_dropdowns", Done)
        ELSE s2

\* Mutant: the change check without the look at leadership.
_update_hash_any_unit(s) ==
    LET current_hash == _get_current_hash(s)
        stored_hash == _stored_get(s, "hash")
        s2 == [s EXCEPT !.log.cur = current_hash, !.log.stored = stored_hash,
                        !.log.leader = s.isLeader]
    IN  IF current_hash # stored_hash
        THEN LET s3 == Reinitialize(Reinitialize(Reinitialize(s2,
                           "prometheus"), "loki"), "grafana")
                 s4 == _stored_set(s3, "reinit_without_topology_dropdowns", Done)
             IN  _stored_set(s4, "hash", current_hash)
        ELSE IF ~Truthy(_stored_get(s2, "reinit_without_topology_dropdowns"))
        THEN _stored_set(Reinitialize(s2, "grafana"),
                         "reinit_without_topology_dropdowns", Done)
        ELSE s2

\* Variant: the stored values are written before the collaborators are called.
_update_hash_and_rel_data_commits_first(s) ==
    LET current_hash == _get_current_hash(s)
        stored_hash == _stored_get(s, "hash")
        s1 == IF current_hash # stored_hash THEN Look(s) ELSE s
        s2 == [s1 EXCEPT !.log.cur = current_hash, !.log.stored = stored_hash,
                         !.log.leader = s1.isLeader]
    IN  IF current_hash = UnicodeDecodeError
        THEN [s EXCEPT !.exc = DecodeError]
        ELSE IF current_hash # stored_hash /\ s2.isLeader
        THEN LET s3 == _stored_set(s2, "reinit_without_topology_dropdowns", Done)
                 s4 == _stored_set(s3, "hash", current_hash)
             IN  Reinitialize(Reinitialize(Reinitialize(s4,
                     "prometheus"), "loki"), "grafana")
        ELSE IF ~Truthy(_stored_get(s2, "reinit_without_topology_dropdowns"))
        THEN _stored_set(Reinitialize(s2, "grafana"),
                         "reinit_without_topology_dropdowns", Done)
        ELSE s2

_update_hash_and_rel_data(s) ==
    LET current_hash == _get_current_hash(s)
        stored_hash == _stored_get(s, "hash")
        s1 == IF current_hash # stored_hash THEN Look(s) ELSE s
        s2 == [s1 EXCEPT !.log.cur = current_hash, !.log.stored = stored_hash,
                         !.log.leader = s1.isLeader]
    IN  IF current_hash = UnicodeDecodeError
        THEN [s EXCEPT !.exc = DecodeError]
        ELSE IF current_hash # stored_hash /\ s2.isLeader
        THEN LET s3 == Reinitialize(Reinitialize(Reinitialize(s2,
                           "prometheus"), "loki"), "grafana")
                 s4 == _stored_set(s3, "reinit_without_topology_dropdowns", Done)
             IN  _stored_set(s4, "hash", current_hash)
        ELSE IF ~Truthy(_stored_get(s2, "reinit_without_topology_dropdowns"))
        THEN _stored_set(Reinitialize(s2, "grafana"),
                         "reinit_without_topology_dropdowns", Done)
        ELSE s2

\* Mutant: the repo folder is left in place.
_remove_repo_folder_keeps(s) == [s EXCEPT !.log.wiped = TRUE]

_remove_repo_folder(s) ==
    [s EXCEPT !.repo = [exists |-> FALSE, marker |-> NoFile], !.log.wiped = TRUE]

\* How a command run in the container may end: container.exec raises APIError,
\* wait_output raises ExecError or ChangeError, or the command succeeds.
ExecResults == {"ok", "APIError", "ExecError", "ChangeError"}

\* The outcomes of one git-sync run.  A successful run leaves the repo folder
\* checked out and prints on stdout; a failed one leaves the folder as it was
\* and prints on stderr.
SyncOutcomes ==
    [result : {"ok"}, repo : {r \in RepoStates : r.exists}, stdout : {<<"o">>},
     stderr : {<<>>}]
    \cup [result : ExecResults \ {"ok"}, repo : {None}, stdout : {<<>>}, stderr : {<<"e">>}]

Exec(s, cmd) == [s EXCEPT !.log.execs = Append(@, cmd)]

\* self.meta.containers["git-sync"].mounts["content-from-git"].location
_git_sync_mount_point_sidecar == <<"<mount>">>

SUBDIR == <<"repo">>

\* str(depth) for the depths of the model.
Str(n) == <<ToString(n)>>

\* Variant: --rev is given only when no branch is.
_git_sync_command_line_branch_or_rev(s) ==
    LET url == s.config.git_repo
        branch == s.config.git_branch
        rev == s.config.git_rev
        depth == s.config.git_depth
    IN  <<<<"/git-sync">>>>
        \o <<<<"--repo">>, url>>
        \o (IF Truthy(branch) THEN <<<<"--branch">>, branch>>
            ELSE IF Truthy(rev) THEN <<<<"--rev">>, rev>> ELSE <<>>)
        \o (IF depth # 0 /\ depth > 0 THEN <<<<"--depth">>, Str(depth)>> ELSE <<>>)
        \o <<<<"--root">>, _git_sync_mount_point_sidecar, <<"--dest">>, SUBDIR>>
        \o (IF Truthy(s.config.git_ssh_key)
            THEN <<<<"--ssh">>, <<"--ssh-key-file">>, <<_ssh_key_file_name>>>>
            ELSE <<>>)
        \o <<<<"--one-time">>>>

\* The list of words passed to container.exec; a word is a Python string.
_git_sync_command_line(s) ==
    LET url == s.config.git_repo
        branch == s.config.git_branch
        rev == s.config.git_rev
        depth == s.config.git_depth
    IN  <<<<"/git-sync">>>>
        \o <<<<"--repo">>, url>>
        \o (IF Truthy(branch) THEN <<<<"--branch">>, branch>> ELSE <<>>)
        \o (IF Truthy(rev) THEN <<<<"--rev">>, rev>> ELSE <<>>)
        \o (IF depth # 0 /\ depth > 0 THEN <<<<"--depth">>, Str(depth)>> ELSE <<>>)
        \o <<<<"--root">>, _git_sync_mount_point_sidecar, <<"--dest">>, SUBDIR>>
        \o (IF Truthy(s.config.git_ssh_key)
            THEN <<<<"--ssh">>, <<"--ssh-key-file">>, <<_ssh_key_file_name>>>>
            ELSE <<>>)
        \o <<<<"--one-time">>>>

\* A command that is a git-sync run (and not "/git-sync -version").
IsSyncCommand(cmd) == cmd[Len(cmd)] = <<"--one-time">>

_exec_sync_repo(s) ==
    LET first == \A i \in 1..Len(s.log.execs) : ~IsSyncCommand(s.log.execs[i])
        o == IF first THEN s.env.sync ELSE s.env.sync2
        s0 == Exec(s, _git_sync_command_line(s))
        s1 == [s0 EXCEPT !.log.syncs =
                   Append(@, IF o.result = "ok" THEN "ok" ELSE "SyncError")]
    IN  CASE o.result = "APIError" ->
               [s1 EXCEPT !.exc = SyncError(ErrorText, None)]
          [] o.result = "ExecError" ->
               [s1 EXCEPT !.exc = SyncError(ErrorText, o.stderr)]
          [] o.result = "ChangeError" ->
               [s1 EXCEPT !.exc = SyncError(ErrorText, None)]
          [] OTHER ->
               [s1 EXCEPT !.repo = o.repo, !.ret = <<o.stdout, o.stderr>>]

WaitingForContainer == MaintenanceStatus(<<"Waiting for pod startup to complete">>)

WaitingForPeerRelation == MaintenanceStatus(<<"Waiting for peer relation to be created">>)

\* (the message's backquotes are left out)
ConfigMissing == BlockedStatus(<<"Config options missing - use juju config">>)

\* BlockedStatus("Sync failed: " + e.message)
SyncFailed(e) == BlockedStatus(<<"Sync failed: ">> \o e.message)

NoHashFile == BlockedStatus(<<"No hash file yet - confirm config is valid">>)

\* An exception nobody catches ends the handler where it was raised.
Raise(s) == [s EXCEPT !.log.raised = s.exc.type, !.exc = NoExc]

\* Mutant: a failed sync is handled like a missing config, wiping the folder.
_common_exit_hook_wipes_on_failure(s) ==
    IF ~s.canConnect
    THEN [s EXCEPT !.status = WaitingForContainer, !.log.stage = "container"]
    ELSE IF ~s.peerRel
    THEN [s EXCEPT !.status = WaitingForPeerRelation, !.log.stage = "peer"]
    ELSE IF ~_configured(s)
    THEN LET s1 == [s EXCEPT !.status = ConfigMissing, !.log.stage = "unconfigured"]
         IN  _update_hash_and_rel_data(_remove_repo_folder(s1))
    ELSE LET s1 == _exec_sync_repo(s)
         IN  IF s1.exc # NoExc
             THEN LET s2 == [s1 EXCEPT !.status = SyncFailed(s1.exc),
                                       !.exc = NoExc, !.log.stage = "syncfailed"]
                  IN  _update_hash_and_rel_data(_remove_repo_folder(s2))
             ELSE LET s2 == _update_hash_and_rel_data(s1)
                  IN  [s2 EXCEPT !.status =
                                    IF _stored_get(s2, "hash") \in {_hash_placeholder, None}
                                    THEN NoHashFile ELSE ActiveStatus,
                                 !.log.stage = "done"]

\* Mutant: the final status follows the hash read in this pass, not the stored one.
_common_exit_hook_status_from_marker(s) ==
    IF ~s.canConnect
    THEN [s EXCEPT !.status = WaitingForContainer, !.log.stage = "container"]
    ELSE IF ~s.peerRel
    THEN [s EXCEPT !.status = WaitingForPeerRelation, !.log.stage = "peer"]
    ELSE IF ~_configured(s)
    THEN LET s1 == [s EXCEPT !.status = ConfigMissing, !.log.stage = "unconfigured"]
         IN  _update_hash_and_rel_data(_remove_repo_folder(s1))
    ELSE LET s1 == _exec_sync_repo(s)
         IN  IF s1.exc # NoExc
             THEN [s1 EXCEPT !.status = SyncFailed(s1.exc),
                             !.exc = NoExc, !.log.stage = "syncfailed"]
             ELSE LET s2 == _update_hash_and_rel_data(s1)
                  IN  IF s2.exc # NoExc THEN Raise([s2 EXCEPT !.log.stage = "raised"])
                      ELSE [s2 EXCEPT !.status =
                                    IF _get_current_hash(s2) = _hash_placeholder
                                    THEN NoHashFile ELSE ActiveStatus,
                                 !.log.stage = "done"]

\* Mutant: the config check comes before the peer relation check.
_common_exit_hook_config_first(s) ==
    IF ~s.canConnect
    THEN [s EXCEPT !.status = WaitingForContainer, !.log.stage = "container"]
    ELSE IF ~_configured(s)
    THEN LET s1 == [s EXCEPT !.status = ConfigMissing, !.log.stage = "unconfigured"]
         IN  _update_hash_and_rel_data(_remove_repo_folder(s1))
    ELSE IF ~s.peerRel
    THEN [s EXCEPT !.status = WaitingForPeerRelation, !.log.stage = "peer"]
    ELSE LET s1 == _exec_sync_repo(s)
         IN  IF s1.exc # NoExc
             THEN [s1 EXCEPT !.status = SyncFailed(s1.exc),
                             !.exc = NoExc, !.log.stage = "syncfailed"]
             ELSE LET s2 == _update_hash_and_rel_data(s1)
                  IN  [s2 EXCEPT !.status =
                                    IF _stored_get(s2, "hash") \in {_hash_placeholder, None}
                                    THEN NoHashFile ELSE ActiveStatus,
                                 !.log.stage = "done"]

\* Variant: the repo folder is removed before every sync as well.
_common_exit_hook_wipes_before_sync(s) ==
    IF ~s.canConnect
    THEN [s EXCEPT !.status = WaitingForContainer, !.log.stage = "container"]
    ELSE IF ~s.peerRel
    THEN [s EXCEPT !.status = WaitingForPeerRelation, !.log.stage = "peer"]
    ELSE IF ~_configured(s)
    THEN LET s1 == [s EXCEPT !.status = ConfigMissing, !.log.stage = "unconfigured"]
         IN  _update_hash_and_rel_data(_remove_repo_folder(s1))
    ELSE LET s1 == _exec_sync_repo(_remove_repo_folder(s))
         IN  IF s1.exc # NoExc
             THEN [s1 EXCEPT !.status = SyncFailed(s1.exc),
                             !.exc = NoExc, !.log.stage = "syncfailed"]
             ELSE LET s2 == _update_hash_and_rel_data(s1)
                  IN  IF s2.exc # NoExc THEN Raise([s2 EXCEPT !.log.stage = "raised"])
                      ELSE [s2 EXCEPT !.status =
                                    IF _stored_get(s2, "hash") \in {_hash_placeholder, None}
                                    THEN NoHashFile ELSE ActiveStatus,
                                 !.log.stage = "done"]

\* Variant: only a stored hash that was never written keeps the unit Blocked.
_common_exit_hook_active_on_placeholder(s) ==
    IF ~s.canConnect
    THEN [s EXCEPT !.status = WaitingForContainer, !.log.stage = "container"]
    ELSE IF ~s.peerRel
    THEN [s EXCEPT !.status = WaitingForPeerRelation, !.log.stage = "peer"]
    ELSE IF ~_configured(s)
    THEN LET s1 == [s EXCEPT !.status = ConfigMissing, !.log.stage = "unconfigured"]
         IN  _update_hash_and_rel_data(_remove_repo_folder(s1))
    ELSE LET s1 == _exec_sync_repo(s)
         IN  IF s1.exc # NoExc
             THEN [s1 EXCEPT !.status = SyncFailed(s1.exc),
                             !.exc = NoExc, !.log.stage = "syncfailed"]
             ELSE LET s2 == _update_hash_and_rel_data(s1)
                  IN  IF s2.exc # NoExc THEN Raise([s2 EXCEPT !.log.stage = "raised"])
                      ELSE [s2 EXCEPT !.status =
                                    IF _stored_get(s2, "hash") = None
                                    THEN NoHashFile ELSE ActiveStatus,
                                 !.log.stage = "done"]

\* Variant: a unit left Blocked by a failed sync does not sync again.
_common_exit_hook_stays_failed(s) ==
    IF ~s.canConnect
    THEN [s EXCEPT !.status = WaitingForContainer, !.log.stage = "container"]
    ELSE IF ~s.peerRel
    THEN [s EXCEPT !.status = WaitingForPeerRelation, !.log.stage = "peer"]
    ELSE IF ~_configured(s)
    THEN LET s1 == [s EXCEPT !.status = ConfigMissing, !.log.stage = "unconfigured"]
         IN  _update_hash_and_rel_data(_remove_repo_folder(s1))
    ELSE IF s.status.name = "blocked" /\ s.status.message # <<>>
            /\ s.status.message[1] = "Sync failed: "
    THEN [s EXCEPT !.log.stage = "syncfailed"]
    ELSE LET s1 == _exec_sync_repo(s)
         IN  IF s1.exc # NoExc
             THEN [s1 EXCEPT !.status = SyncFailed(s1.exc),
                             !.exc = NoExc, !.log.stage = "syncfailed"]
             ELSE LET s2 == _update_hash_and_rel_data(s1)
                  IN  IF s2.exc # NoExc THEN Raise([s2 EXCEPT !.log.stage = "raised"])
                      ELSE [s2 EXCEPT !.status =
                                    IF _stored_get(s2, "hash") \in {_hash_placeholder, None}
                                    THEN NoHashFile ELSE ActiveStatus,
                                 !.log.stage = "done"]

\* Variant: a pass that finds no peer relation leaves the status as it is.
_common_exit_hook_silent_without_peer(s) ==
    IF ~s.canConnect
    THEN [s EXCEPT !.status = WaitingForContainer, !.log.stage = "container"]
    ELSE IF ~s.peerRel
    THEN [s EXCEPT !.log.stage = "peer"]
    ELSE IF ~_configured(s)
    THEN LET s1 == [s EXCEPT !.status = ConfigMissing, !.log.stage = "unconfigured"]
         IN  _update_hash_and_rel_data(_remove_repo_folder(s1))
    ELSE LET s1 == _exec_sync_repo(s)
         IN  IF s1.exc # NoExc
             THEN [s1 EXCEPT !.status = SyncFailed(s1.exc),
                             !.exc = NoExc, !.log.stage = "syncfailed"]
             ELSE LET s2 == _update_hash_and_rel_data(s1)
                  IN  IF s2.exc # NoExc THEN Raise([s2 EXCEPT !.log.stage = "raised"])
                      ELSE [s2 EXCEPT !.status =
                                    IF _stored_get(s2, "hash") \in {_hash_placeholder, None}
                                    THEN NoHashFile ELSE ActiveStatus,
                                 !.log.stage = "done"]

_common_exit_hook(s) ==
    IF ~s.canConnect
    THEN [s EXCEPT !.status = WaitingForContainer, !.log.stage = "container"]
    ELSE IF ~s.peerRel
    THEN [s EXCEPT !.status = WaitingForPeerRelation, !.log.stage = "peer"]
    ELSE IF ~_configured(s)
    THEN LET s1 == [s EXCEPT !.status = ConfigMissing, !.log.stage = "unconfigured"]
         IN  _update_hash_and_rel_data(_remove_repo_folder(s1))
    ELSE LET s1 == _exec_sync_repo(s)
         IN  IF s1.exc # NoExc
             THEN [s1 EXCEPT !.status = SyncFailed(s1.exc),
                             !.exc = NoExc, !.log.stage = "syncfailed"]
             ELSE LET s2 == _update_hash_and_rel_data(s1)
                  IN  IF s2.exc # NoExc THEN Raise([s2 EXCEPT !.log.stage = "raised"])
                      ELSE [s2 EXCEPT !.status =
                                    IF _stored_get(s2, "hash") \in {_hash_placeholder, None}
                                    THEN NoHashFile ELSE ActiveStatus,
                                 !.log.stage = "done"]

\* Variant: the pass is skipped after a successful sync as well.
_on_sync_now_action_never_reconciles(s) ==
    IF ~s.canConnect THEN [s EXCEPT !.log.failed = <<"Container not ready">>]
    ELSE IF ~_configured(s)
    THEN [s EXCEPT !.log.failed = <<"Config options missing - use juju config">>]
    ELSE LET s1 == _exec_sync_repo(s)
         IN  IF s1.exc # NoExc
             THEN [s1 EXCEPT !.log.failed = s1.exc.message, !.exc = NoExc]
             ELSE [s1 EXCEPT !.log.results = s1.ret[1]]

\* Variant: the action does not look at the configuration before syncing.
_on_sync_now_action_unchecked_config(s) ==
    IF ~s.canConnect THEN [s EXCEPT !.log.failed = <<"Container not ready">>]
    ELSE LET s1 == _exec_sync_repo(s)
         IN  IF s1.exc # NoExc
             THEN [s1 EXCEPT !.log.failed = s1.exc.message, !.exc = NoExc]
             ELSE _common_exit_hook([s1 EXCEPT !.log.results = s1.ret[1]])

\* event.fail and event.set_results are logged; SyncError is the only
\* exception the handler catches, and it returns right after event.fail.
_on_sync_now_action(s) ==
    IF ~s.canConnect THEN [s EXCEPT !.log.failed = <<"Container not ready">>]
    ELSE IF ~_configured(s)
    THEN [s EXCEPT !.log.failed = <<"Config options missing - use juju config">>]
    ELSE LET s1 == _exec_sync_repo(s)
         IN  IF s1.exc # NoExc
             THEN [s1 EXCEPT !.log.failed = s1.exc.message, !.exc = NoExc]
             ELSE _common_exit_hook([s1 EXCEPT !.log.results = s1.ret[1]])

\* Variant: known_hosts is removed before the scan is run.
_trust_ssh_remote_removes_first(s) ==
    LET remote == RemoteRegexFirst(s.config.git_repo)
        s0 == [s EXCEPT !.knownHosts = NoFile,
                        !.log.removed = @ \cup {_known_hosts_file}]
        s1 == Exec(s0, <<<<"ssh-keyscan">>, remote>>)
    IN  IF remote = None THEN s
        ELSE CASE s.env.scan = "ExecError" ->
                    [s1 EXCEPT !.exc = SyncError(ErrorText, <<>>)]
               [] s.env.scan \in {"APIError", "ChangeError"} ->
                    [s1 EXCEPT !.exc = PebbleError(s.env.scan)]
               [] OTHER ->
                    [s1 EXCEPT !.knownHosts = <<"keys of ">> \o remote,
                               !.log.pushed = @ \cup {_known_hosts_file}]

\* container.exec(["ssh-keyscan", remote]) and process.wait_output(): only
\* ExecError is converted to SyncError.
_trust_ssh_remote(s) ==
    LET remote == RemoteRegexFirst(s.config.git_repo)
        s1 == Exec(s, <<<<"ssh-keyscan">>, remote>>)
    IN  IF remote = None THEN s
        ELSE CASE s.env.scan = "ExecError" ->
                    [s1 EXCEPT !.exc = SyncError(ErrorText, <<>>)]
               [] s.env.scan \in {"APIError", "ChangeError"} ->
                    [s1 EXCEPT !.exc = PebbleError(s.env.scan)]
               [] OTHER ->
                    [s1 EXCEPT !.knownHosts = <<"keys of ">> \o remote,
                               !.log.removed = @ \cup {_known_hosts_file},
                               !.log.pushed = @ \cup {_known_hosts_file}]

_save_ssh_key(s) ==
    [s EXCEPT !.keyFile = s.config.git_ssh_key,
              !.log.pushed = @ \cup {_ssh_key_file_name}]

\* Mutant: the ssh setup runs without asking whether the container is reachable.
_on_config_changed_unguarded(s) ==
    IF Truthy(s.config.git_ssh_key)
    THEN LET s1 == _trust_ssh_remote(s)
         IN  IF s1.exc # NoExc THEN Raise(s1)
             ELSE _common_exit_hook(_save_ssh_key(s1))
    ELSE _common_exit_hook(s)

_on_config_changed(s) ==
    IF s.canConnect /\ Truthy(s.config.git_ssh_key)
    THEN LET s1 == _trust_ssh_remote(s)
         IN  IF s1.exc # NoExc THEN Raise(s1)
             ELSE _common_exit_hook(_save_ssh_key(s1))
    ELSE _common_exit_hook(s)

\* The outputs of "/git-sync -version": one the version pattern matches, one
\* it does not; or the command fails.
VersionResults == {"v3.5.0", "unknown", "ExecError"}

\* The _git_sync_version property followed by its use in the handler.
_on_git_sync_pebble_ready(s) ==
    LET s1 == _common_exit_hook(s)
        s2 == Exec(s1, <<<<"/git-sync">>, <<"-version">>>>)
    IN  IF ~s1.canConnect \/ s1.log.raised # "none" THEN s1
        ELSE CASE s.env.version = "ExecError" ->
                    Raise([s2 EXCEPT !.exc = PebbleError("ExecError")])
               [] s.env.version = "v3.5.0" -> [s2 EXCEPT !.log.version = <<"3.5.0">>]
               [] OTHER -> s2

_on_relation_joined(s) == _common_exit_hook(s)

_on_upgrade_charm(s) == _common_exit_hook(s)

_on_update_status(s) == _common_exit_hook(s)

_on_leader_changed(s) == _common_exit_hook(s)

_on_start(s) == _common_exit_hook(s)

\* ------------------------------------------------- secret_store.SecretGetter
\* A secret URL is a sequence of items: the punctuation urlparse looks at, one
\* character each, and words of letters and digits between them.
UrlPunctuation == {":", "/", "?", "#", "["}

\* str.lower() on a word.
Lower(w) == IF w = "SECRET" THEN "secret" ELSE w

\* The Juju secrets of the model as this charm sees them: "i" is granted to it
\* and holds the key "k"; "d" exists but is not granted; no other id exists.
SecretValue == <<"K">>

SecretIds == {"i", "d"}

Granted(id) == id = "i"

Content(id) == [key \in {"k"} |-> SecretValue]

\* The first position of an item of the set S in t at or after position
\* from; Len(t) + 1 when there is none.
Find(t, S, from) ==
    LET hits == {i \in from..Len(t) : t[i] \in S}
    IN  IF hits = {} THEN Len(t) + 1 ELSE SetMin(hits)

\* urllib.parse.urlparse(url): the scheme is the text before the first ":"
\* when that text is words only, lowercased; a "//" after it opens the netloc,
\* which runs up to the next "/", "?" or "#"; a netloc with an opening bracket
\* and no closing one raises ValueError; the fragment and then the query are
\* cut off the rest, which is the path.
urlparse(url) ==
    LET colon == Find(url, {":"}, 1)
        hasScheme == /\ colon \in 2..Len(url)
                     /\ \A i \in 1..(colon - 1) : url[i] \notin UrlPunctuation
        scheme == IF hasScheme THEN [i \in 1..(colon - 1) |-> Lower(url[i])] ELSE <<>>
        rest == IF hasScheme THEN SubSeq(url, colon + 1, Len(url)) ELSE url
        hasNetloc == Len(rest) >= 2 /\ rest[1] = "/" /\ rest[2] = "/"
        delim == Find(rest, {"/", "?", "#"}, 3)
        netloc == IF hasNetloc THEN SubSeq(rest, 3, delim - 1) ELSE <<>>
        after == IF hasNetloc THEN SubSeq(rest, delim, Len(rest)) ELSE rest
        path == SubSeq(after, 1, Find(after, {"?", "#"}, 1) - 1)
    IN  [raises |-> \E i \in 1..Len(netloc) : netloc[i] = "[",
         scheme |-> scheme, netloc |-> netloc, path |-> path]

\* str.lstrip("/")
RECURSIVE LStripSlash(_)
LStripSlash(t) == IF t = <<>> \/ Head(t) # "/" THEN t ELSE LStripSlash(Tail(t))

\* str.split("/"): the pieces between the slashes, empty ones included.
RECURSIVE SplitSlash(_)
SplitSlash(t) ==
    LET i == Find(t, {"/"}, 1)
    IN  IF i > Len(t) THEN <<t>>
        ELSE <<SubSeq(t, 1, i - 1)>> \o SplitSlash(SubSeq(t, i + 1, Len(t)))

secret_not_found_msg == <<"git SSH key secret not found.">>

\* The message of secret_store.py for a ModelError.
missing_permissions_msg ==
    <<"missing charm permissions for the git SSH key secret. 'juju grant-secret' may resolve.">>

\* The message of secrets_helper.py for a ModelError.
secrets_helper_missing_permissions_msg ==
    <<"missing charm permissions for the secret, see debug-log.">>

\* The validation of get_value: urlparse, the test of scheme, netloc and path,
\* and the count of path segments.  ok: the reference passed; then secret_id
\* and secret_key are what the lookup is made with.
ParseReference(secret_url) ==
    LET parsed_secret == urlparse(secret_url)
        paths == SplitSlash(LStripSlash(parsed_secret.path))
    IN  [raises |-> parsed_secret.raises,
         ok |-> /\ parsed_secret.scheme = <<"secret">>
                /\ Truthy(parsed_secret.netloc)
                /\ Truthy(parsed_secret.path)
                /\ Len(paths) = 1,
         secret_id |-> parsed_secret.netloc,
         secret_key |-> paths[1]]

\* The outcome of a SecretGetter call: the value returned and the status set.
Got(s, value, st) == [s EXCEPT !.ret = value, !.log.value = value, !.log.getter = st]

\* model.get_secret(id=secret_id), secret.get_content(refresh=True) and
\* content.get(secret_key), with the except clauses around them.  The id and
\* the key are the texts urlparse cut out, whatever items they hold.  denied is
\* the message for ModelError, found the status after a value was found.
\* Variant: the except clause for ModelError comes first and so catches
\* SecretNotFoundError, its subclass, as well.
Lookup_model_error_first(s, secret_id, secret_key, denied, found) ==
    LET s1 == [s EXCEPT !.log.lookups = Append(@, secret_id)]
        known == Len(secret_id) = 1 /\ secret_id[1] \in SecretIds
        id == secret_id[1]
        held == Len(secret_key) = 1 /\ secret_key[1] \in DOMAIN Content(id)
    IN  IF ~known THEN Got(s1, None, BlockedStatus(denied))
        ELSE IF ~Granted(id) THEN Got(s1, None, BlockedStatus(denied))
        ELSE IF ~held \/ ~Truthy(Content(id)[secret_key[1]])
             THEN Got(s1, None, BlockedStatus(secret_not_found_msg))
             ELSE Got(s1, Content(id)[secret_key[1]], found)

Lookup(s, secret_id, secret_key, denied, found) ==
    LET s1 == [s EXCEPT !.log.lookups = Append(@, secret_id)]
        known == Len(secret_id) = 1 /\ secret_id[1] \in SecretIds
        id == secret_id[1]
        held == Len(secret_key) = 1 /\ secret_key[1] \in DOMAIN Content(id)
    IN  IF ~known THEN Got(s1, None, BlockedStatus(secret_not_found_msg))
        ELSE IF ~Granted(id) THEN Got(s1, None, BlockedStatus(denied))
        ELSE IF ~held \/ ~Truthy(Content(id)[secret_key[1]])
             THEN Got(s1, None, BlockedStatus(secret_not_found_msg))
             ELSE Got(s1, Content(id)[secret_key[1]], found)

ValueError == [type |-> "ValueError", message |-> ErrorText, details |-> None]

\* secret_store.SecretGetter.get_value; a ValueError of urlparse escapes it.
get_value(s, secret_url) ==
    IF ~Truthy(secret_url) THEN Got(s, None, s.log.getter)
    ELSE LET r == ParseReference(secret_url)
         IN  IF r.raises THEN [s EXCEPT !.exc = ValueError]
             ELSE IF ~r.ok THEN Got(s, None, BlockedStatus(secret_not_found_msg))
             ELSE Lookup(s, r.secret_id, r.secret_key, missing_permissions_msg,
                         s.log.getter)

\* secrets_helper.SecretGetter.get_value: the same steps; a value found sets
\* the status to Active, and the ModelError message differs.
secrets_helper_get_value(s, secret_url) ==
    IF ~Truthy(secret_url) THEN Got(s, None, s.log.getter)
    ELSE LET r == ParseReference(secret_url)
         IN  IF r.raises THEN [s EXCEPT !.exc = ValueError]
             ELSE IF ~r.ok THEN Got(s, None, BlockedStatus(secret_not_found_msg))
             ELSE Lookup(s, r.secret_id, r.secret_key,
                         secrets_helper_missing_permissions_msg, ActiveStatus)

\* ------------------------------------------------------- the state machine
\* A freshly deployed unit: no container yet, no peer relation yet, default
\* config, empty storage, the status Juju starts a unit with.
Init ==
    /\ canConnect = FALSE
    /\ peerRel = FALSE
    /\ isLeader \in BOOLEAN
    /\ config = DefaultConfig
    /\ appData = EmptyAppData
    /\ repo = [exists |-> FALSE, marker |-> NoFile]
    /\ knownHosts = NoFile
    /\ keyFile = NoFile
    /\ status = MaintenanceStatus(<<>>)
    /\ plan = {}
    /\ tick = 0
    /\ last = NewLog

\* The world after a handler becomes the state.
Apply(s) ==
    /\ canConnect' = s.canConnect
    /\ peerRel' = s.peerRel
    /\ isLeader' = s.isLeader
    /\ config' = s.config
    /\ appData' = s.appData
    /\ repo' = s.repo
    /\ knownHosts' = s.knownHosts
    /\ keyFile' = s.keyFile
    /\ status' = s.status
    /\ plan' = s.plan
    /\ tick' = IF tick = 1 THEN 2 ELSE 1
    /\ last' = s.log

\* The environments of a handler that runs the pass once.  The environment's
\* answers are drawn only where the pass asks for them: it looks at leadership
\* only past the container and peer relation checks, and runs git-sync only
\* when git_repo is set.
\* A change before the first look is LeadershipChanged followed by the handler.
Flips == IF canConnect /\ peerRel THEN {0, 2, 3} ELSE {0}

PassSyncs ==
    IF canConnect /\ peerRel /\ Truthy(config.git_repo)
    THEN SyncOutcomes
    ELSE {CHOOSE o \in SyncOutcomes : o.result = "APIError"}

PassEnvs == {[NoEnv EXCEPT !.flip = f, !.sync = o] : f \in Flips, o \in PassSyncs}

\* ssh-keyscan runs only in a reachable container with git_ssh_key set.
ScanResults ==
    IF canConnect /\ Truthy(config.git_ssh_key) /\ RemoteRegexFirst(config.git_repo) # None
    THEN ExecResults ELSE {"ok"}

ConfigChanged ==
    \E e \in PassEnvs, r \in ScanResults :
        Apply(_on_config_changed(World([e EXCEPT !.scan = r])))

UpgradeCharm == \E e \in PassEnvs : Apply(_on_upgrade_charm(World(e)))

\* leader-elected is delivered to the unit that was elected.
LeaderElected ==
    /\ isLeader
    /\ \E e \in PassEnvs : Apply(_on_leader_changed(World(e)))

\* leader-settings-changed is delivered to the units that are not the leader.
LeaderSettingsChanged ==
    /\ ~isLeader
    /\ \E e \in PassEnvs : Apply(_on_leader_changed(World(e)))

PebbleReady ==
    \E e \in PassEnvs, v \in (IF canConnect THEN VersionResults ELSE {"unknown"}) :
        Apply(_on_git_sync_pebble_ready(World([e EXCEPT !.version = v])))

Start == \E e \in PassEnvs : Apply(_on_start(World(e)))

UpdateStatus == \E e \in PassEnvs : Apply(_on_update_status(World(e)))

\* relation-joined of prometheus-config, loki-config or grafana-dashboards.
RelationJoined == \E e \in PassEnvs : Apply(_on_relation_joined(World(e)))

\* The action's own git-sync, then the one of the pass.
SyncNowAction ==
    \E o \in (IF canConnect /\ Truthy(config.git_repo)
              THEN SyncOutcomes ELSE {CHOOSE x \in SyncOutcomes : x.result = "APIError"}) :
      \E e \in (IF o.result = "ok" THEN PassEnvs ELSE {NoEnv}) :
        Apply(_on_sync_now_action(World([e EXCEPT !.sync = o, !.sync2 = e.sync])))

\* ---- the environment between two events
ContainerChanged ==
    /\ canConnect' = ~canConnect
    /\ last' = NewLog
    /\ tick' = 0
    /\ UNCHANGED <<peerRel, isLeader, config, appData, repo, knownHosts, keyFile, status,
                   plan>>

\* The peer relation appears, with whatever the application data bag holds by
\* then.
PeerRelationCreated ==
    /\ ~peerRel
    /\ peerRel' = TRUE
    /\ appData' \in AppDatas
    /\ last' = NewLog
    /\ tick' = 0
    /\ UNCHANGED <<canConnect, isLeader, config, repo, knownHosts, keyFile, status, plan>>

LeadershipChanged ==
    /\ isLeader' = ~isLeader
    /\ last' = NewLog
    /\ tick' = 0
    /\ UNCHANGED <<canConnect, peerRel, config, appData, repo, knownHosts, keyFile, status,
                   plan>>

\* The leader, another unit, writes the application data bag.
RemoteLeaderWrites ==
    /\ ~isLeader
    /\ peerRel
    /\ appData' \in AppDatas \ {appData}
    /\ last' = NewLog
    /\ tick' = 0
    /\ UNCHANGED <<canConnect, peerRel, isLeader, config, repo, knownHosts, keyFile, status,
                   plan>>

\* juju config: options are set or reset.
SetConfig ==
    /\ config' \in Configs \ {config}
    /\ last' = NewLog
    /\ tick' = 0
    /\ UNCHANGED <<canConnect, peerRel, isLeader, appData, repo, knownHosts, keyFile, status,
                   plan>>

Next ==
    \/ ConfigChanged
    \/ UpgradeCharm
    \/ LeaderElected
    \/ LeaderSettingsChanged
    \/ PebbleReady
    \/ Start
    \/ UpdateStatus
    \/ RelationJoined
    \/ SyncNowAction
    \/ ContainerChanged
    \/ PeerRelationCreated
    \/ LeadershipChanged
    \/ RemoteLeaderWrites
    \/ SetConfig

Spec == Init /\ [][Next]_vars

\* --------------------------------------------- the marker file, in detail
\* A leader with git_repo set, the container reachable and the peer relation
\* present; every git-sync run succeeds and leaves some marker file.
InitHash ==
    /\ canConnect = TRUE
    /\ peerRel = TRUE
    /\ isLeader = TRUE
    /\ config = [DefaultConfig EXCEPT !.git_repo = RepoHttps]
    /\ appData = EmptyAppData
    /\ repo = [exists |-> FALSE, marker |-> NoFile]
    /\ knownHosts = NoFile
    /\ keyFile = NoFile
    /\ status = MaintenanceStatus(<<>>)
    /\ plan = {}
    /\ tick = 0
    /\ last = NewLog

SyncLeaves(m) ==
    [NoEnv EXCEPT !.sync = [result |-> "ok", repo |-> [exists |-> TRUE, marker |-> m],
                            stdout |-> <<"o">>, stderr |-> <<>>]]

UpdateStatusAnyMarker ==
    \E m \in MarkerTexts : Apply(_on_update_status(World(SyncLeaves(m))))

RelationJoinedAnyMarker ==
    \E m \in MarkerTexts : Apply(_on_relation_joined(World(SyncLeaves(m))))

NextHash == UpdateStatusAnyMarker \/ RelationJoinedAnyMarker

SpecHash == InitHash /\ [][NextHash]_vars

\* --------------------------------------------- the command line, in detail
\* The configurations the command line is built from: git_repo set, every
\* other option set or not, git_depth negative, zero or positive.
CmdConfigs ==
    [git_repo : {RepoHttps, RepoSsh},
     git_branch : {<<>>, <<"m">>},
     git_rev : {<<>>, <<"r">>},
     git_depth : (-1)..MaxDepth,
     git_ssh_key : {<<>>, <<"k">>},
     git_ssh_key_secret : {<<>>}]

\* A leader with the container reachable and the peer relation present, under
\* any of these configurations.
InitCmd ==
    /\ canConnect = TRUE
    /\ peerRel = TRUE
    /\ isLeader = TRUE
    /\ config \in CmdConfigs
    /\ appData = EmptyAppData
    /\ repo = [exists |-> FALSE, marker |-> NoFile]
    /\ knownHosts = NoFile
    /\ keyFile = NoFile
    /\ status = MaintenanceStatus(<<>>)
    /\ plan = {}
    /\ tick = 0
    /\ last = NewLog

\* Every git-sync run succeeds and checks out the first commit.
SyncsFine ==
    LET e == SyncLeaves(GitDir(CHOOSE h \in Hashes : TRUE))
    IN  [e EXCEPT !.sync2 = e.sync]

UpdateStatusCmd == Apply(_on_update_status(World(SyncsFine)))

SyncNowActionCmd == Apply(_on_sync_now_action(World(SyncsFine)))

SetConfigCmd ==
    /\ config' \in CmdConfigs \ {config}
    /\ last' = NewLog
    /\ tick' = 0
    /\ UNCHANGED <<canConnect, peerRel, isLeader, appData, repo, knownHosts, keyFile, status,
                   plan>>

NextCmd == UpdateStatusCmd \/ SyncNowActionCmd \/ SetConfigCmd

SpecCmd == InitCmd /\ [][NextCmd]_vars

\* --------------------------------------------------- the SSH key, in detail
\* Values of git_ssh_key_secret: unset; a reference that resolves; the shapes
\* the unit tests call incorrect ("foo", a bare id, "secret:<id>",
\* "secret://<id>", a key the secret does not hold, a model name before the
\* id); the id of no secret; a secret that is not granted.
Reference(items) == <<"secret", ":", "/", "/">> \o items

GoodReference == Reference(<<"i", "/", "k">>)

IncorrectReferences ==
    {<<"x">>, <<"i">>, <<"secret", ":", "i">>, Reference(<<"i">>),
     Reference(<<"i", "/", "x">>), Reference(<<"x", "/", "i", "/", "k">>)}

KeyReferences ==
    {<<>>, GoodReference, Reference(<<"x", "/", "k">>), Reference(<<"d", "/", "k">>)}
    \cup IncorrectReferences

\* git_repo is set; the cleartext key and the reference are set or not.
KeyConfigs ==
    [git_repo : {RepoHttps, RepoSsh},
     git_branch : {<<>>},
     git_rev : {<<>>},
     git_depth : {1},
     git_ssh_key : {<<>>, <<"k">>},
     git_ssh_key_secret : KeyReferences]

\* A leader with the container reachable and the peer relation present, under
\* any of these configurations, with no key file yet.
InitKey ==
    /\ canConnect = TRUE
    /\ peerRel = TRUE
    /\ isLeader = TRUE
    /\ config \in KeyConfigs
    /\ appData = EmptyAppData
    /\ repo = [exists |-> FALSE, marker |-> NoFile]
    /\ knownHosts = NoFile
    /\ keyFile = NoFile
    /\ status = MaintenanceStatus(<<>>)
    /\ plan = {}
    /\ tick = 0
    /\ last = NewLog

\* config-changed, with ssh-keyscan and git-sync succeeding.
ConfigChangedKey ==
    Apply(_on_config_changed(World([SyncsFine EXCEPT !.scan = "ok"])))

SetConfigKey ==
    /\ config' \in KeyConfigs \ {config}
    /\ last' = NewLog
    /\ tick' = 0
    /\ UNCHANGED <<canConnect, peerRel, isLeader, appData, repo, knownHosts, keyFile, status,
                   plan>>

NextKey == ConfigChangedKey \/ SetConfigKey

SpecKey == InitKey /\ [][NextKey]_vars

\* --------------------------------------------- the secret getter, in detail
\* How a secret URL may start: nothing, a word, a scheme without "//", the
\* scheme in either case, another scheme, "//" without a scheme.
UrlStarts ==
    {<<>>, <<"secret">>, <<"secret", ":">>, <<"secret", ":", "/", "/">>,
     <<"SECRET", ":", "/", "/">>, <<"x", ":", "/", "/">>, <<"/", "/">>}

\* What follows is made of: the ids of the two secrets, the id of none, the
\* key the secret holds, and punctuation.
UrlItems == {"i", "d", "x", "k", "/", "[", "?"}

\* The values of git_ssh_key_secret that get_value is called with.
SecretUrls ==
    {start \o rest : start \in UrlStarts,
                     rest \in UNION {[1..n -> UrlItems] : n \in 0..MaxUrlLen}}
    \cup KeyReferences

InitSecret ==
    /\ canConnect = TRUE
    /\ peerRel = TRUE
    /\ isLeader = TRUE
    /\ config \in {[DefaultConfig EXCEPT !.git_repo = RepoHttps, !.git_ssh_key_secret = u] :
                     u \in SecretUrls}
    /\ appData = EmptyAppData
    /\ repo = [exists |-> FALSE, marker |-> NoFile]
    /\ knownHosts = NoFile
    /\ keyFile = NoFile
    /\ status = MaintenanceStatus(<<>>)
    /\ plan = {}
    /\ tick = 0
    /\ last = NewLog

\* The end of a call: an exception in flight escapes.
Return(s) == IF s.exc # NoExc THEN Raise(s) ELSE s

\* SecretGetter(model, config).get_value(config["git_ssh_key_secret"]) of
\* secret_store.py, and the one of secrets_helper.py.
GetValue == Apply(Return(get_value(World(NoEnv), config.git_ssh_key_secret)))

HelperGetValue ==
    Apply(Return(secrets_helper_get_value(World(NoEnv), config.git_ssh_key_secret)))

\* juju config between two calls: git_ssh_key_secret is set to another value.
\* The log of the call before stays, for the next call to be compared with.
SetReference ==
    /\ config' \in {[config EXCEPT !.git_ssh_key_secret = u] : u \in KeyReferences} \ {config}
    /\ UNCHANGED <<canConnect, peerRel, isLeader, appData, repo, knownHosts, keyFile, status,
                   plan, tick, last>>

NextSecret == GetValue \/ HelperGetValue \/ SetReference

SpecSecret == InitSecret /\ [][NextSecret]_vars

\* ---------------------------------------------- the repo folder, in detail
\* The configurations a checkout moves between: git_repo unset or one of two
\* repositories, git_branch and git_rev each set or not.
WipeConfigs ==
    {[DefaultConfig EXCEPT !.git_repo = u, !.git_branch = b, !.git_rev = r] :
        u \in {<<>>, RepoHttps, RepoSsh}, b \in {<<>>, <<"m">>}, r \in {<<>>, <<"r">>}}

\* A leader with the container reachable and the peer relation present, under
\* any of these configurations, before the first checkout.
InitWipe ==
    /\ canConnect = TRUE
    /\ peerRel = TRUE
    /\ isLeader = TRUE
    /\ config \in WipeConfigs
    /\ appData = EmptyAppData
    /\ repo = [exists |-> FALSE, marker |-> NoFile]
    /\ knownHosts = NoFile
    /\ keyFile = NoFile
    /\ status = MaintenanceStatus(<<>>)
    /\ plan = {}
    /\ tick = 0
    /\ last = NewLog

\* config-changed, dispatched once for the configuration the unit starts with
\* and once after every juju config; git-sync ends in any of its ways.
ConfigChangedWipe ==
    /\ tick = 0
    /\ \E o \in PassSyncs : Apply(_on_config_changed(World([NoEnv EXCEPT !.sync = o])))

\* juju config after the event before was handled: git_repo, git_branch or
\* git_rev changes.  The log of the handler before stays, for the next pass to
\* be compared with.
SetConfigWipe ==
    /\ tick # 0
    /\ config' \in WipeConfigs \ {config}
    /\ tick' = 0
    /\ UNCHANGED <<canConnect, peerRel, isLeader, appData, repo, knownHosts, keyFile, status,
                   plan, last>>

NextWipe == ConfigChangedWipe \/ SetConfigWipe

SpecWipe == InitWipe /\ [][NextWipe]_vars

\* ------------------------------------------------- the republish, in detail
\* A leader with the container reachable and the peer relation present, with
\* git_repo unset or set, before the first pass.
InitNotify ==
    /\ canConnect = TRUE
    /\ peerRel = TRUE
    /\ isLeader = TRUE
    /\ config \in {DefaultConfig, [DefaultConfig EXCEPT !.git_repo = RepoHttps]}
    /\ appData = EmptyAppData
    /\ repo = [exists |-> FALSE, marker |-> NoFile]
    /\ knownHosts = NoFile
    /\ keyFile = NoFile
    /\ status = MaintenanceStatus(<<>>)
    /\ plan = {}
    /\ tick = 0
    /\ last = NewLog

\* update-status: git-sync ends in any of its ways, leadership may change
\* hands inside the pass, and a relation exists to any of the collaborators.
UpdateStatusNotify ==
    \E e \in PassEnvs, r \in SUBSET Collaborators :
        Apply(_on_update_status(World([e EXCEPT !.related = r])))

\* Leadership moves between two events.  The log of the handler before stays,
\* for the next pass to be compared with.
LeadershipChangedNotify ==
    /\ isLeader' = ~isLeader
    /\ tick' = 0
    /\ UNCHANGED <<canConnect, peerRel, config, appData, repo, knownHosts, keyFile, status,
                   plan, last>>

\* The leader, another unit, writes the application data bag; the log stays.
RemoteLeaderWritesNotify ==
    /\ ~isLeader
    /\ appData' \in AppDatas \ {appData}
    /\ tick' = 0
    /\ UNCHANGED <<canConnect, peerRel, isLeader, config, repo, knownHosts, keyFile, status,
                   plan, last>>

NextNotify == UpdateStatusNotify \/ LeadershipChangedNotify \/ RemoteLeaderWritesNotify

SpecNotify == InitNotify /\ [][NextNotify]_vars

\* -------------------------------------------------- ssh-keyscan, in detail
\* The configurations of the SSH setup: a repository with or without a remote
\* to scan, git_ssh_key unset or one of two keys.
ScanConfigs ==
    {[DefaultConfig EXCEPT !.git_repo = u, !.git_ssh_key = k] :
        u \in {RepoHttps, RepoSsh}, k \in {<<>>, <<"k">>, <<"n">>}}

\* A leader with the container reachable and the peer relation present, under
\* any of these configurations, with no file written yet.
InitScan ==
    /\ canConnect = TRUE
    /\ peerRel = TRUE
    /\ isLeader = TRUE
    /\ config \in ScanConfigs
    /\ appData = EmptyAppData
    /\ repo = [exists |-> FALSE, marker |-> NoFile]
    /\ knownHosts = NoFile
    /\ keyFile = NoFile
    /\ status = MaintenanceStatus(<<>>)
    /\ plan = {}
    /\ tick = 0
    /\ last = NewLog

\* config-changed: ssh-keyscan ends in any of its ways, git-sync succeeds.
ConfigChangedScan ==
    \E r \in ScanResults : Apply(_on_config_changed(World([SyncsFine EXCEPT !.scan = r])))

SetConfigScan ==
    /\ config' \in ScanConfigs \ {config}
    /\ last' = NewLog
    /\ tick' = 0
    /\ UNCHANGED <<canConnect, peerRel, isLeader, appData, repo, knownHosts, keyFile, status,
                   plan>>

NextScan == ConfigChangedScan \/ SetConfigScan

SpecScan == InitScan /\ [][NextScan]_vars

\* ------------------------------------------------- one getter, many calls
\* A SecretGetter of secret_store.py right after construction (_status is
\* None), with git_ssh_key_secret any of the references of KeyReferences.
InitGetter ==
    /\ canConnect = TRUE
    /\ peerRel = TRUE
    /\ isLeader = TRUE
    /\ config \in {[DefaultConfig EXCEPT !.git_repo = RepoHttps, !.git_ssh_key_secret = u] :
                     u \in KeyReferences}
    /\ appData = EmptyAppData
    /\ repo = [exists |-> FALSE, marker |-> NoFile]
    /\ knownHosts = NoFile
    /\ keyFile = NoFile
    /\ status = MaintenanceStatus(<<>>)
    /\ plan = {}
    /\ tick = 0
    /\ last = NewLog

\* One more call of get_value on the same getter: self._status is what the
\* call before left.
GetValueOnGetter ==
    Apply(Return(get_value([World(NoEnv) EXCEPT !.log.getter = last.getter],
                           config.git_ssh_key_secret)))

NextGetter == GetValueOnGetter \/ SetReference

SpecGetter == InitGetter /\ [][NextGetter]_vars

\* ------------------------------------------------- pass after pass, in detail
\* The handler's log with the unit status the handler found.
Found(s) == [s EXCEPT !.log.found = status]

\* update-status on a unit that goes through the environment changes of Spec,
\* git_repo being set and unset.
UpdateStatusHeal == \E e \in PassEnvs : Apply(Found(_on_update_status(World(e))))

SetConfigHeal ==
    /\ config' \in {DefaultConfig, [DefaultConfig EXCEPT !.git_repo = RepoHttps]} \ {config}
    /\ last' = NewLog
    /\ tick' = 0
    /\ UNCHANGED <<canConnect, peerRel, isLeader, appData, repo, knownHosts, keyFile, status,
                   plan>>

NextHeal ==
    \/ UpdateStatusHeal
    \/ ContainerChanged
    \/ PeerRelationCreated
    \/ LeadershipChanged
    \/ RemoteLeaderWrites
    \/ SetConfigHeal

SpecHeal == Init /\ [][NextHeal]_vars

\* ------------------------------------------------------------ the claims
\* A step in which an event handler ran.
HandlerStep == tick' # tick /\ tick' # 0

\* A step in which an event handler ran the reconciliation pass.
PassStep == HandlerStep /\ last'.stage # "none"

\* The unit is the leader before the handler and after it: every look at
\* unit.is_leader() in between answered True.
LeaderThroughout == isLeader /\ isLeader'

FollowerThroughout == ~isLeader /\ ~isLeader'

\* Every collaborator was reinitialized n times by the handler of log l.
Republished(l, n) == \A c \in Collaborators : l.calls[c] = n

\* The number of git-sync runs of the handler of log l.
SyncRuns(l) == Cardinality({i \in 1..Len(l.execs) : IsSyncCommand(l.execs[i])})

\* The handler of log l was the sync-now action.
IsAction(l) == l.failed # None \/ l.results # None

\* Two passes in a row on one unit: both reached the fingerprint observation
\* and read the same fingerprint, nothing happened in between, and the unit's
\* leadership is the same at both observations and at the end.
TwoPasses ==
    /\ PassStep
    /\ tick # 0
    /\ last.cur # None
    /\ last'.cur = last.cur
    /\ last.leader = isLeader
    /\ last'.leader = isLeader
    /\ isLeader' = isLeader
    /\ config' = config

\* C1 (as claimed): with the config, the leadership and the fingerprint fixed,
\* two passes in a row make at most one reinitialize call per collaborator in
\* total, and the second pass makes none, on a leader and on a follower.
C1_SecondPassRepublishesNothing ==
    [][TwoPasses
       => /\ last'.calls = NoCalls
          /\ \A c \in Collaborators : last.calls[c] + last'.calls[c] <= 1]_vars

\* C1 on the leader: the statement holds when the unit is the leader.
C1_LeaderSecondPassRepublishesNothing ==
    [][TwoPasses /\ isLeader
       => /\ last'.calls = NoCalls
          /\ \A c \in Collaborators : last.calls[c] + last'.calls[c] <= 1]_vars

\* A leader ran two passes in a row and the first one republished.
C1_LeaderWitness ==
    /\ isLeader
    /\ tick = 2
    /\ last.leader
    /\ last.cur \in Hashes
    /\ last.stored = last.cur
    /\ last.calls = NoCalls

\* C2: a handler run by a unit that is not the leader, before it and after
\* it, writes no key of the peer application data, whatever hash it reads.
C2_FollowerNeverWrites ==
    [][HandlerStep /\ FollowerThroughout
       => appData' = appData /\ last'.wrote = {}]_vars

\* C2 witness: a follower's pass read a real hash that differs from the stored
\* one and wrote nothing.
C2_Witness ==
    /\ ~isLeader
    /\ ~last.leader
    /\ last.stage = "done"
    /\ last.cur \in Hashes
    /\ last.cur # last.stored
    /\ last.wrote = {}
    /\ appData.hash # last.cur

Flag(d) == d.reinit_without_topology_dropdowns

\* C3 (as claimed): whenever git_repo is unset and content is present, the pass
\* wipes the repo folder, republishes all three collaborators exactly once and
\* ends Blocked.
C3_UnsetRepoAlwaysRepublishesOnce ==
    [][(/\ PassStep
        /\ canConnect
        /\ peerRel
        /\ ~Truthy(config.git_repo)
        /\ repo.exists
        /\ repo.marker # NoFile)
       => /\ ~repo'.exists
          /\ Republished(last', 1)
          /\ status'.name = "blocked"]_vars

\* C3 (amended): a pass with the container reachable, the peer relation present
\* and git_repo unset wipes the repo folder and ends Blocked with the
\* config-missing message on every unit; on the leader it republishes all three
\* collaborators exactly once and stores the placeholder when the stored hash
\* is not the placeholder yet, and republishes nothing once the placeholder and
\* the Done flag are stored; a follower republishes neither prometheus nor loki.
C3_UnsetRepoWipesAndLeaderRepublishesOnce ==
    [][(/\ PassStep
        /\ canConnect
        /\ peerRel
        /\ ~Truthy(config.git_repo))
       => /\ last'.stage = "unconfigured"
          /\ last'.wiped
          /\ ~repo'.exists
          /\ SyncRuns(last') = 0
          /\ status' = ConfigMissing
          /\ (LeaderThroughout /\ appData.hash # _hash_placeholder
                => /\ Republished(last', 1)
                   /\ appData'.hash = _hash_placeholder
                   /\ Flag(appData') = Done)
          /\ (LeaderThroughout /\ appData.hash = _hash_placeholder /\ Flag(appData) = Done
                => last'.calls = NoCalls /\ appData' = appData)
          /\ (FollowerThroughout
                => /\ last'.calls["prometheus"] = 0
                   /\ last'.calls["loki"] = 0
                   /\ appData' = appData)]_vars

\* C3 witness: the leader's pass found git_repo unset with a real hash stored,
\* wiped the folder, republished all three and stored the placeholder.
C3_Witness ==
    /\ isLeader
    /\ last.leader
    /\ last.stage = "unconfigured"
    /\ last.stored \in Hashes
    /\ last.wiped
    /\ ~repo.exists
    /\ Republished(last, 1)
    /\ appData.hash = _hash_placeholder
    /\ status = ConfigMissing

\* C4: on a unit that is the leader throughout, with a stored hash that was
\* never written, a pass that reaches the fingerprint observation republishes
\* all three collaborators once and writes the hash it read, the placeholder
\* when the marker file is missing; a pass with the container unreachable
\* observes nothing, republishes nothing and writes nothing.
C4_FirstPassCountsAsChange ==
    [][(/\ HandlerStep
        /\ LeaderThroughout
        /\ appData.hash = None)
       => /\ (last'.cur # None
                => /\ last'.stored = None
                   /\ Republished(last', 1)
                   /\ "hash" \in last'.wrote
                   /\ appData'.hash = last'.cur
                   /\ (repo'.marker = NoFile => appData'.hash = _hash_placeholder)
                   /\ (repo'.marker # NoFile => appData'.hash \in Hashes))
          /\ (~canConnect
                => /\ last'.cur = None
                   /\ last'.calls = NoCalls
                   /\ last'.wrote = {}
                   /\ appData' = appData)]_vars

\* C4 witness: the leader's first pass found no marker file and stored the
\* placeholder over a hash that was never written.
C4_Witness ==
    /\ isLeader
    /\ last.leader
    /\ last.stage = "done"
    /\ last.stored = None
    /\ last.cur = _hash_placeholder
    /\ Republished(last, 1)
    /\ appData.hash = _hash_placeholder

\* C5: on a unit that is the leader throughout, a pass that reads a hash
\* different from the stored one republishes all three collaborators exactly
\* once and stores the hash it read; a pass that reads the stored hash (with
\* the Done flag stored) republishes nothing and writes nothing.
C5_ChangeDetection ==
    [][(/\ HandlerStep
        /\ LeaderThroughout
        /\ last'.cur # None)
       => /\ appData'.hash = last'.cur
          /\ Flag(appData') = Done
          /\ (appData.hash # last'.cur => Republished(last', 1))
          /\ (appData.hash = last'.cur /\ Flag(appData) = Done
                => last'.calls = NoCalls /\ last'.wrote = {} /\ appData' = appData)]_vars

\* C5 witness: the leader's pass read a real hash different from the real hash
\* stored, republished all three and stored the new one.
C5_Witness ==
    /\ isLeader
    /\ last.leader
    /\ last.stage = "done"
    /\ last.stored \in Hashes
    /\ last.cur \in Hashes
    /\ last.cur # last.stored
    /\ Republished(last, 1)
    /\ appData.hash = last.cur
    /\ status = ActiveStatus

\* C6: a pass whose sync fails (APIError, ExecError or ChangeError) wipes
\* nothing, writes nothing and republishes nothing: the stored data are as
\* before, the repo folder is as the pass found it, and the status is Blocked
\* with "Sync failed: " and the error's message.
C6_FailedSyncChangesNothing ==
    [][(HandlerStep /\ last'.stage = "syncfailed")
       => /\ appData' = appData
          /\ last'.wrote = {}
          /\ last'.calls = NoCalls
          /\ last'.cur = None
          /\ ~last'.wiped
          /\ (~IsAction(last') => repo' = repo)
          /\ repo'.exists = (repo.exists \/ IsAction(last'))
          /\ status' = SyncFailed(SyncError(ErrorText, None))]_vars

\* C6 witness: a sync failed on a leader with a repo folder checked out and a
\* real hash stored; all of it is still there.
C6_Witness ==
    /\ last.stage = "syncfailed"
    /\ last.results = None
    /\ isLeader
    /\ repo.exists
    /\ repo.marker # NoFile
    /\ appData.hash \in Hashes
    /\ status.name = "blocked"

\* C7 (as claimed): while git_repo is unset, the status after every lifecycle
\* event is Blocked and the Pebble plan is empty.
C7_UnconfiguredAlwaysBlocked ==
    [][(/\ HandlerStep
        /\ ~IsAction(last')
        /\ ~Truthy(config.git_repo))
       => status'.name = "blocked" /\ plan' = {}]_vars

\* C7 (amended): while git_repo is unset, the Pebble plan is empty after every
\* lifecycle event, and the status is Blocked with the config-missing message
\* when the container is reachable and the peer relation exists; it is the
\* Maintenance status of the first check that fails otherwise.
C7_UnconfiguredStatus ==
    [][(/\ HandlerStep
        /\ ~IsAction(last')
        /\ ~Truthy(config.git_repo))
       => /\ plan' = {}
          /\ (canConnect /\ peerRel => status' = ConfigMissing)
          /\ (~canConnect => status' = WaitingForContainer)
          /\ (canConnect /\ ~peerRel => status' = WaitingForPeerRelation)]_vars

\* C7 witness: a follower's pass with git_repo unset ended Blocked with an
\* empty plan.
C7_Witness ==
    /\ ~Truthy(config.git_repo)
    /\ canConnect
    /\ peerRel
    /\ ~isLeader
    /\ last.stage = "unconfigured"
    /\ status = ConfigMissing
    /\ plan = {}

\* A lifecycle event's pass on a follower that finds the container reachable,
\* the peer relation present and a stored hash that was never written.
FollowerBeforeLeaderInit ==
    /\ PassStep
    /\ ~IsAction(last')
    /\ canConnect
    /\ peerRel
    /\ FollowerThroughout
    /\ appData.hash = None

NothingDone ==
    /\ last'.execs = <<>>
    /\ last'.pushed = {}
    /\ last'.removed = {}
    /\ ~last'.wiped
    /\ last'.calls = NoCalls
    /\ last'.wrote = {}
    /\ last'.raised = "none"
    /\ appData' = appData
    /\ repo' = repo
    /\ keyFile' = keyFile
    /\ knownHosts' = knownHosts

\* C9 (as claimed): with the container unreachable every event handler ends
\* with the Maintenance status and does nothing else.
C9_UnreachableEndsInMaintenance ==
    [][(HandlerStep /\ ~canConnect)
       => status'.name = "maintenance" /\ NothingDone]_vars

\* C9 (amended): with the container unreachable no handler executes a command,
\* pushes or removes a file, wipes the repo folder, republishes or writes peer
\* data; every lifecycle handler ends with the waiting-for-container
\* Maintenance status, and the sync-now action fails with "Container not
\* ready" and leaves the status as it was.
C9_UnreachableContainerNoAction ==
    [][(HandlerStep /\ ~canConnect)
       => /\ NothingDone
          /\ (IsAction(last')
                => last'.failed = <<"Container not ready">> /\ status' = status)
          /\ (~IsAction(last')
                => last'.stage = "container" /\ status' = WaitingForContainer)]_vars

\* C9 witness: config-changed ran on a leader with git_repo and git_ssh_key set
\* while the container was unreachable, and only set the status.
C9_Witness ==
    /\ ~canConnect
    /\ isLeader
    /\ Truthy(config.git_repo)
    /\ Truthy(config.git_ssh_key)
    /\ last.stage = "container"
    /\ last.execs = <<>>
    /\ last.pushed = {}
    /\ status = WaitingForContainer

\* C10: with the container reachable and no peer relation the pass ends with
\* the waiting-for-peer-relation status whatever git_repo is; it wipes
\* nothing, republishes nothing, writes nothing and runs no sync (the one sync
\* of a sync-now action precedes its pass).
C10_PeerCheckBeforeConfigCheck ==
    [][(PassStep /\ canConnect /\ ~peerRel)
       => /\ last'.stage = "peer"
          /\ status' = WaitingForPeerRelation
          /\ ~last'.wiped
          /\ last'.calls = NoCalls
          /\ last'.wrote = {}
          /\ last'.cur = None
          /\ SyncRuns(last') = (IF IsAction(last') THEN 1 ELSE 0)
          /\ (~IsAction(last') => repo' = repo)]_vars

\* C10 witness: a pass with git_repo unset and a repo folder present stopped
\* at the peer relation check and left the folder.
C10_Witness ==
    /\ canConnect
    /\ ~peerRel
    /\ ~Truthy(config.git_repo)
    /\ repo.exists
    /\ last.stage = "peer"
    /\ ~last.wiped
    /\ status = WaitingForPeerRelation

\* C11 (as claimed): on any unit (its leadership not changing during the pass)
\* a pass that gets past the sync ends Blocked (no hash file yet) exactly when
\* the hash it read from the marker is the placeholder, and Active otherwise.
C11_StatusFollowsMarker ==
    [][(PassStep /\ last'.stage = "done" /\ isLeader' = isLeader)
       => status' = IF last'.cur = _hash_placeholder THEN NoHashFile ELSE ActiveStatus]_vars

\* C11 (amended): a pass that gets past the sync ends Blocked (no hash file
\* yet) exactly when the stored hash after the pass is the placeholder or was
\* never written, and Active otherwise; on a unit that is the leader
\* throughout, the stored hash after the pass is the hash read in the pass.
C11_StatusFollowsStoredHash ==
    [][(PassStep /\ last'.stage = "done")
       => /\ status' = IF appData'.hash \in {_hash_placeholder, None}
                       THEN NoHashFile ELSE ActiveStatus
          /\ (LeaderThroughout => appData'.hash = last'.cur)]_vars

\* C11 witness: a follower read a real hash while the placeholder is stored,
\* and ended Blocked.
C11_Witness ==
    /\ ~isLeader
    /\ ~last.leader
    /\ last.stage = "done"
    /\ last.cur \in Hashes
    /\ appData.hash = _hash_placeholder
    /\ status = NoHashFile

\* A marker file that can be opened and decoded.
Readable(m) == m \notin {NoFile, Undecodable}

\* The reference-to-worktree shape: the text, stripped, is one line with a
\* slash that has at least one character before it and one after it.
WorktreeShape(m) ==
    LET c == Strip(m)
    IN  /\ \A i \in 1..Len(c) : c[i] # "\n"
        /\ \E i \in 2..(Len(c) - 1) : c[i] = "/"

\* The stripped text after its last slash.
AfterLastSlash(m) ==
    LET c == Strip(m)
        p == SetMax({i \in 1..Len(c) : c[i] = "/"})
    IN  SubSeq(c, p + 1, Len(c))

\* An event that found the marker file m in place and whose sync left it there.
MarkerInPlace(m) == HandlerStep /\ repo.marker = m /\ repo'.marker = m

C13_ServiceInPlanWhileBlocked ==
    [][(/\ PassStep
        /\ LeaderThroughout
        /\ Truthy(config.git_repo)
        /\ last'.stage = "done"
        /\ repo'.marker = NoFile)
       => "git-sync" \in plan' /\ status' = NoHashFile]_vars

\* ---- C14 ----------------------------------------------------------------
SyncErrorMessage == <<"Sync error: ">> \o ErrorText

\* C14 as stated: whenever the sync-now action has run its own git-sync, the
\* reconciliation pass runs after it, whether that sync succeeded or failed.
C14_ActionAlwaysReconciles ==
    [][HandlerStep /\ IsAction(last') /\ SyncRuns(last') >= 1
       => last'.stage # "none"]_vars

\* C14 (amended): the sync-now action runs the reconciliation pass exactly when
\* its own git-sync succeeded; when its own sync failed the action fails and
\* nothing else happens: no pass, status, stored data and repository folder
\* are left as they were, nothing is republished.
C14_ActionReconcilesOnlyAfterSuccess ==
    [][HandlerStep /\ IsAction(last') /\ SyncRuns(last') >= 1
       => /\ last'.stage # "none" <=> last'.syncs[1] = "ok"
          /\ last'.syncs[1] = "ok" =>
                /\ last'.results # None
                /\ last'.stage = "done" =>
                      status' = (IF appData'.hash \in {_hash_placeholder, None}
                                 THEN NoHashFile ELSE ActiveStatus)
          /\ last'.syncs[1] = "SyncError" =>
                /\ last'.failed = SyncErrorMessage
                /\ status' = status
                /\ appData' = appData
                /\ repo' = repo
                /\ last'.calls = NoCalls
                /\ last'.wrote = {}]_vars

\* A sync-now action whose own sync succeeded and whose pass ran to the end,
\* republishing a first fingerprint on the leader.
C14_Witness ==
    /\ last.results # None
    /\ last.failed = None
    /\ last.syncs = <<"ok", "ok">>
    /\ last.stage = "done"
    /\ last.stored = None
    /\ last.cur \in Hashes
    /\ status = ActiveStatus

\* ---- C15 ----------------------------------------------------------------
\* C15: a sync-now action that gets to its sync (container reachable, git_repo
\* set) executes the git-sync one-shot command exactly once in the container.
C15_ActionSyncsExactlyOnce ==
    [][(/\ HandlerStep
        /\ IsAction(last')
        /\ canConnect
        /\ Truthy(config.git_repo))
       => SyncRuns(last') = 1]_vars

\* ---- C16 ----------------------------------------------------------------
\* C16: the outcome of a sync-now action.  With the container unreachable or
\* git_repo unset the action fails and no command is executed; when its sync
\* raises SyncError it fails with that error's message and sets no result;
\* otherwise it sets the result to the stdout of the command and does not
\* fail, whatever the pass that follows does.
C16_ActionOutcome ==
    [][HandlerStep /\ IsAction(last')
       => /\ ~canConnect =>
                /\ last'.failed = <<"Container not ready">>
                /\ last'.execs = <<>>
                /\ last'.results = None
          /\ canConnect /\ ~Truthy(config.git_repo) =>
                /\ last'.failed = <<"Config options missing - use juju config">>
                /\ last'.execs = <<>>
                /\ last'.results = None
          /\ canConnect /\ Truthy(config.git_repo) =>
                /\ last'.syncs # <<>>
                /\ last'.syncs[1] = "SyncError" =>
                      /\ last'.failed = SyncErrorMessage
                      /\ last'.results = None
                /\ last'.syncs[1] = "ok" =>
                      /\ last'.failed = None
                      /\ last'.results = <<"o">>]_vars

\* A sync-now action that set its result and did not fail although the sync
\* of the pass that followed it failed.
C16_Witness ==
    /\ last.results = <<"o">>
    /\ last.failed = None
    /\ last.syncs = <<"ok", "SyncError">>
    /\ last.stage = "syncfailed"

\* ---- C17 ----------------------------------------------------------------
\* C17 as stated: no event takes the stored fingerprint back from a real value
\* to the placeholder or to absent.
C17_StoredHashNeverRolledBack ==
    [][HandlerStep /\ appData.hash \in Hashes => appData'.hash \in Hashes]_vars

\* C17 (amended): no event handler takes the stored fingerprint back to absent,
\* and a handler changes it only by a leader's write of the fingerprint its
\* pass read.  A real value is replaced by the placeholder exactly in such a
\* write, when the pass read the placeholder: git_repo is unset, or the sync
\* left no marker.
C17_StoredHashFollowsLeaderRead ==
    [][HandlerStep
       => /\ appData.hash # None => appData'.hash # None
          /\ appData'.hash # appData.hash =>
                /\ "hash" \in last'.wrote
                /\ appData'.hash = last'.cur
          /\ appData.hash \in Hashes /\ appData'.hash \notin Hashes =>
                /\ appData'.hash = _hash_placeholder
                /\ last'.cur = _hash_placeholder
                /\ ~Truthy(config.git_repo) \/ repo'.marker = NoFile
          /\ (/\ LeaderThroughout
              /\ last'.stage \in {"unconfigured", "done"}
              /\ appData.hash \in Hashes
              /\ last'.cur = _hash_placeholder)
             => appData'.hash = _hash_placeholder]_vars

\* A leader whose sync succeeded but left no marker: a real stored fingerprint
\* was replaced by the placeholder.
C17_Witness ==
    /\ isLeader
    /\ Truthy(config.git_repo)
    /\ last.stage = "done"
    /\ last.stored \in Hashes
    /\ last.cur = _hash_placeholder
    /\ appData.hash = _hash_placeholder
    /\ repo.marker = NoFile

\* ---- C18 ----------------------------------------------------------------
\* A marker file that can be read and has the reference-to-worktree shape.
RealMarker(m) == Readable(m) /\ WorktreeShape(m)

\* A pass that ran its change check right after a pass that stored what it read.
ConsecutiveChecks == HandlerStep /\ tick # 0 /\ last.stage = "done" /\ last'.stage = "done"

C19_MarkerExtraction ==
    [][HandlerStep /\ last'.stage \in {"done", "raised"}
       => /\ last'.raised = "none"
          /\ RealMarker(repo'.marker) =>
                /\ last'.cur = AfterLastSlash(repo'.marker)
                /\ last'.cur # _hash_placeholder
          /\ ~RealMarker(repo'.marker) => last'.cur = _hash_placeholder]_vars

\* ---- C20 ----------------------------------------------------------------
\* The git-sync command lines a handler passed to container.exec.
SyncCommands(l) == SelectSeq(l.execs, IsSyncCommand)

Has(cmd, word) == \E i \in 1..Len(cmd) : cmd[i] = word

\* Where a word stands in a command line that has it.
Pos(cmd, word) == SetMin({i \in 1..Len(cmd) : cmd[i] = word})

\* The word that follows a switch.
ArgOf(cmd, word) == cmd[Pos(cmd, word) + 1]

Count(b) == IF b THEN 1 ELSE 0

\* The command line is the one C20 lists for the configuration c: the words
\* that must be there, their arguments, their order, and nothing else.
IsCommandLineOf(cmd, c) ==
    LET sw(w) == <<w>>
        ssh == c.git_ssh_key # <<>>
        P(w) == Pos(cmd, sw(w))
    IN  /\ cmd[1] = sw("/git-sync")
        /\ cmd[2] = sw("--repo") /\ cmd[3] = c.git_repo
        /\ Has(cmd, sw("--branch")) <=> c.git_branch # <<>>
        /\ Has(cmd, sw("--rev")) <=> c.git_rev # <<>>
        /\ Has(cmd, sw("--depth")) <=> c.git_depth > 0
        /\ Has(cmd, sw("--ssh")) <=> ssh
        /\ Has(cmd, sw("--ssh-key-file")) <=> ssh
        /\ c.git_branch # <<>> =>
              P("--branch") = 4 /\ ArgOf(cmd, sw("--branch")) = c.git_branch
        /\ c.git_rev # <<>> =>
              /\ P("--rev") = 4 + 2 * Count(c.git_branch # <<>>)
              /\ ArgOf(cmd, sw("--rev")) = c.git_rev
        /\ c.git_depth > 0 =>
              /\ P("--depth") = 4 + 2 * Count(c.git_branch # <<>>) + 2 * Count(c.git_rev # <<>>)
              /\ ArgOf(cmd, sw("--depth")) = <<ToString(c.git_depth)>>
        /\ Has(cmd, sw("--root")) /\ Has(cmd, sw("--dest"))
        /\ P("--root") = 4 + 2 * Count(c.git_branch # <<>>) + 2 * Count(c.git_rev # <<>>)
                           + 2 * Count(c.git_depth > 0)
        /\ ArgOf(cmd, sw("--root")) = <<"<mount>">>
        /\ P("--dest") = P("--root") + 2
        /\ ArgOf(cmd, sw("--dest")) = <<"repo">>
        /\ ssh =>
              /\ P("--ssh") = P("--dest") + 2
              /\ P("--ssh-key-file") = P("--ssh") + 1
              /\ ArgOf(cmd, sw("--ssh-key-file")) = <<"/run/cos-config-ssh-key.priv">>
        /\ Len(cmd) = P("--dest") + 2 + 3 * Count(ssh)
        /\ cmd[Len(cmd)] = sw("--one-time")

\* C20: every git-sync command line a handler executes is exactly the list
\* the configuration determines: /git-sync, --repo R, --branch B iff B is not
\* empty, --rev V iff V is not empty (both may appear), --depth D iff D > 0,
\* --root <mount> --dest repo, the SSH switches iff a key is set, --one-time.
\* Two calls under the same configuration, in one handler or in two handlers
\* in a row, give identical lists.
C20_CommandLine ==
    [][HandlerStep
       => LET cmds == SyncCommands(last')
          IN  /\ \A i \in 1..Len(cmds) : IsCommandLineOf(cmds[i], config)
              /\ \A i, j \in 1..Len(cmds) : cmds[i] = cmds[j]
              /\ tick # 0 =>
                    \A i \in 1..Len(cmds) :
                      \A j \in 1..Len(SyncCommands(last)) :
                        cmds[i] = SyncCommands(last)[j]]_vars

\* A sync-now action under a configuration with branch, revision, a positive
\* depth and an SSH key all set: two identical command lines of 17 words.
C20_Witness ==
    /\ config.git_branch # <<>>
    /\ config.git_rev # <<>>
    /\ config.git_depth > 0
    /\ config.git_ssh_key # <<>>
    /\ Len(SyncCommands(last)) = 2
    /\ Len(SyncCommands(last)[1]) = 17
    /\ Has(SyncCommands(last)[1], <<"--branch">>)
    /\ Has(SyncCommands(last)[1], <<"--rev">>)

\* ---- C21 ----------------------------------------------------------------
\* What the reference resolves to: the secret's value, None when it does not.
SecretKey(c) == get_value(World(NoEnv), c.git_ssh_key_secret).ret

\* The SSH key of a configuration: the secret's when the reference resolves,
\* the cleartext one when no reference is set.
ResolvedKey(c) ==
    IF Truthy(SecretKey(c)) THEN SecretKey(c)
    ELSE IF c.git_ssh_key_secret = <<>> THEN c.git_ssh_key
    ELSE <<>>

\* The configurations whose key is beyond doubt: no unresolvable reference next
\* to a cleartext key.
ClearKeyConfig(c) ==
    Truthy(c.git_ssh_key) => (c.git_ssh_key_secret = <<>> \/ Truthy(SecretKey(c)))

\* C21: the git-sync command line a config-changed event executes contains the
\* SSH switches --ssh and --ssh-key-file if and only if the SSH key resolved
\* from git_ssh_key or from the secret git_ssh_key_secret names is not empty.
C21_SshSwitchesIffKeyResolves ==
    [][HandlerStep /\ ClearKeyConfig(config)
       => \A i \in 1..Len(SyncCommands(last')) :
            LET cmd == SyncCommands(last')[i]
            IN  /\ Has(cmd, <<"--ssh">>) <=> Truthy(ResolvedKey(config))
                /\ Has(cmd, <<"--ssh-key-file">>) <=> Truthy(ResolvedKey(config))]_vars

\* ---- C22 ----------------------------------------------------------------
\* C22: with git_ssh_key set and git_ssh_key_secret resolving, a config-changed
\* event leaves the secret's value in the key file (the tests allow a newline
\* after it) and the command line it executes has the SSH switches.
C22_SecretKeyTakesPrecedence ==
    [][HandlerStep /\ Truthy(config.git_ssh_key) /\ Truthy(SecretKey(config))
       => /\ keyFile' \in {SecretKey(config), SecretKey(config) \o <<"\n">>}
          /\ \A i \in 1..Len(SyncCommands(last')) :
               /\ Has(SyncCommands(last')[i], <<"--ssh">>)
               /\ Has(SyncCommands(last')[i], <<"--ssh-key-file">>)]_vars

\* ---- C23 ----------------------------------------------------------------
\* No SSH key resolves: git_ssh_key is unset and git_ssh_key_secret is unset,
\* malformed or does not resolve.
NoKeyResolves(c) == ~Truthy(c.git_ssh_key) /\ ~Truthy(SecretKey(c))

\* C23: a key file written by an earlier event holds the empty string after
\* a config-changed event in which no SSH key resolves.
C23_UnresolvedKeyWipesKeyFile ==
    [][HandlerStep /\ keyFile \notin {NoFile, <<>>} /\ NoKeyResolves(config)
       => keyFile' = <<>>]_vars

\* ---- C24 ----------------------------------------------------------------
\* The reference is set and SecretGetter answers it with the not-found status:
\* it is malformed, names no secret, or names a key the secret does not hold.
ReferenceNotFound(c) ==
    /\ Truthy(c.git_ssh_key_secret)
    /\ get_value(World(NoEnv), c.git_ssh_key_secret).log.getter
         = BlockedStatus(secret_not_found_msg)

\* C24: with git_repo set and such a reference in git_ssh_key_secret, a
\* config-changed event ends Blocked with the secret-not-found message.
C24_BadReferenceEndsBlocked ==
    [][HandlerStep /\ Truthy(config.git_repo) /\ ReferenceNotFound(config)
       => status' = BlockedStatus(secret_not_found_msg)]_vars

\* ---- C25 ----------------------------------------------------------------
Word(x) == x \notin UrlPunctuation

\* The reference is exactly secret://<id>/<key>.
ExactReference(u) ==
    /\ Len(u) = 7
    /\ SubSeq(u, 1, 4) = <<"secret", ":", "/", "/">>
    /\ Word(u[5]) /\ u[6] = "/" /\ Word(u[7])

\* C25: for every reference set that is not exactly secret://<id>/<key>, get_value
\* does not raise, returns None, leaves the not-found Blocked status and makes
\* no secret lookup.
C25_InexactReferenceFailsValidation ==
    [][(/\ HandlerStep
        /\ Truthy(config.git_ssh_key_secret)
        /\ ~ExactReference(config.git_ssh_key_secret))
       => /\ last'.raised = "none"
          /\ last'.value = None
          /\ last'.getter = BlockedStatus(secret_not_found_msg)
          /\ last'.lookups = <<>>]_vars

\* ---- C26 ----------------------------------------------------------------
\* A call that looked a secret up.
LookedUp(l) == l.lookups # <<>>

\* Why the lookup of a call ended as it did.
Cause(l) ==
    IF l.lookups[1] = <<"d">> THEN "permission denied"
    ELSE IF l.lookups[1] # <<"i">> THEN "secret not found"
    ELSE IF l.value = None THEN "key absent"
    ELSE "found"

\* Two calls in a row, both with a lookup that failed.
TwoFailedLookups ==
    /\ HandlerStep
    /\ LookedUp(last) /\ Cause(last) # "found"
    /\ LookedUp(last') /\ Cause(last') # "found"

\* C26 as stated: lookups that fail for different causes leave different
\* status messages.
C26_CausesHaveDistinctMessages ==
    [][TwoFailedLookups /\ Cause(last) # Cause(last')
       => last.getter.message # last'.getter.message]_vars

\* C26 (amended): a failed lookup leaves a Blocked status; a secret that is not
\* found and a key the secret does not hold leave the same message, the
\* not-found one; a secret the charm may not read leaves another message.
C26_TwoMessagesForThreeCauses ==
    [][HandlerStep /\ LookedUp(last') /\ Cause(last') # "found"
       => /\ last'.value = None
          /\ last'.getter.name = "blocked"
          /\ Cause(last') \in {"secret not found", "key absent"}
                => last'.getter.message = secret_not_found_msg
          /\ Cause(last') = "permission denied"
                => /\ last'.getter.message \in {missing_permissions_msg,
                                                secrets_helper_missing_permissions_msg}
                   /\ last'.getter.message # secret_not_found_msg
          /\ TwoFailedLookups =>
                /\ (Cause(last) = "permission denied") # (Cause(last') = "permission denied")
                      => last.getter.message # last'.getter.message
                /\ {Cause(last), Cause(last')} = {"secret not found", "key absent"}
                      => last.getter.message = last'.getter.message]_vars

\* A lookup of a key the secret does not hold, right after a lookup of a
\* secret that does not exist: the same message twice.
C26_Witness ==
    /\ tick = 2
    /\ config.git_ssh_key_secret = Reference(<<"i", "/", "x">>)
    /\ LookedUp(last)
    /\ Cause(last) = "key absent"
    /\ last.getter = BlockedStatus(secret_not_found_msg)

\* The argument of an option of a git-sync command line, empty when the
\* option is not given.
Opt(cmd, word) == IF Has(cmd, word) THEN ArgOf(cmd, word) ELSE <<>>

\* git_repo, git_branch and git_rev as a git-sync command line gives them.
Target(cmd) == <<Opt(cmd, <<"--repo">>), Opt(cmd, <<"--branch">>), Opt(cmd, <<"--rev">>)>>

\* The repo folder holds a checkout, the pass before ran git-sync (git_repo
\* was set), git_repo is still set, and git_repo, git_branch or git_rev is no
\* longer what that pass synced.
CheckoutMoved ==
    /\ repo.exists
    /\ last.syncs # <<>>
    /\ Truthy(config.git_repo)
    /\ Target(SyncCommands(last)[1]) # <<config.git_repo, config.git_branch, config.git_rev>>

\* C27 as stated: when git_repo stays set and git_branch, git_rev or git_repo
\* changes, the pass wipes the repo folder before it syncs, so that nothing of
\* the previous checkout is left after the pass, not even when the sync fails.
\* The code does not do this.
C27_WipedBeforeNewCheckout ==
    [][HandlerStep /\ CheckoutMoved
       => last'.wiped /\ (last'.syncs # <<"ok">> => ~repo'.exists)]_vars

\* C27, amended: when git_repo stays set and git_branch, git_rev or git_repo
\* changes, the pass does not wipe the repo folder: it runs git-sync once, with
\* the new options, on the folder as it is, and when that run fails the
\* previous checkout is still there after the pass.  The folder is wiped only
\* by a pass that finds git_repo unset.
C27_MovedCheckoutIsSyncedOver ==
    [][HandlerStep
       => /\ CheckoutMoved
             => /\ ~last'.wiped
                /\ SyncRuns(last') = 1
                /\ Target(SyncCommands(last')[1])
                     = <<config.git_repo, config.git_branch, config.git_rev>>
                /\ last'.syncs # <<"ok">> => repo' = repo
          /\ last'.wiped <=> ~Truthy(config.git_repo)]_vars

\* A pass over a moved checkout whose sync failed: in SpecWipe every pass but
\* the first follows a change of git_repo, git_branch or git_rev, and a folder
\* that is there after a failed sync was there before it, so the pass before
\* did not find git_repo unset.
C27_Witness ==
    /\ tick # 0
    /\ last.stage = "syncfailed"
    /\ ~last.wiped
    /\ repo.exists
    /\ repo.marker \in {GitDir(h) : h \in Hashes}

LeaderYes == <<"is_leader", "True">>

LeaderNo == <<"is_leader", "False">>

IsWrite(e) == e[1] = "write"

\* Where, in the order of a handler's log, the unit is found to have lost
\* leadership: unit.is_leader() answers False after having answered True.
Losses(l) ==
    {j \in 1..Len(l.order) :
        l.order[j] = LeaderNo /\ \E i \in 1..(j - 1) : l.order[i] = LeaderYes}

\* C28: leadership is re-checked at the write.  Every write to the peer
\* application data comes right after a unit.is_leader() that answered True;
\* when the unit loses leadership inside a pass, also between the change check
\* of _update_hash_and_rel_data and a _stored_set, nothing is written after
\* the loss, the stored hash stays what it was, and the pass does not raise:
\* it runs to the end of _common_exit_hook.
C28_LeadershipRecheckedAtWrite ==
    [][PassStep
       => LET o == last'.order
          IN  /\ \A i \in 1..Len(o) : IsWrite(o[i]) => i > 1 /\ o[i - 1] = LeaderYes
              /\ \A j \in Losses(last') :
                    /\ \A i \in (j + 1)..Len(o) : ~IsWrite(o[i])
                    /\ "hash" \notin last'.wrote
                    /\ appData'.hash = appData.hash
                    /\ last'.stage \in {"unconfigured", "done"}
                    /\ ~isLeader']_vars

\* A pass that detected a change as the leader, republished, wrote the first
\* key and lost leadership before the write of the hash.
C28_Witness ==
    /\ tick # 0
    /\ last.stage = "done"
    /\ last.order = <<LeaderYes, <<"call", "prometheus">>, <<"call", "loki">>,
                      <<"call", "grafana">>, LeaderYes,
                      <<"write", "reinit_without_topology_dropdowns">>, LeaderNo>>
    /\ appData.hash # last.cur
    /\ ~isLeader

\* Where an entry stands in the order of a log, 0 when it is not there.
At(l, e) ==
    LET at == {i \in 1..Len(l.order) : l.order[i] = e}
    IN  IF at = {} THEN 0 ELSE SetMin(at)

\* The pass of log l detected a change as the leader and did not get to write
\* the hash.
Aborted(l) ==
    /\ l.stage \in {"unconfigured", "done"}
    /\ l.leader
    /\ l.cur # l.stored
    /\ "hash" \notin l.wrote

\* C29: notify before commit.  In a pass that writes the stored hash, each of
\* the three collaborators was called before the write.  A pass that detected
\* a change as the leader and did not get to the write (leadership was lost in
\* between) has called all three and leaves the stored hash as it was, so the
\* change is still there to detect; and the next pass of the unit, leader
\* again, with the stored hash untouched and the same hash in the marker,
\* calls all three again.
C29_NotifyBeforeCommit ==
    [][PassStep
       => /\ "hash" \in last'.wrote
             => \A c \in Collaborators :
                   /\ At(last', <<"call", c>>) > 0
                   /\ At(last', <<"call", c>>) < At(last', <<"write", "hash">>)
          /\ Aborted(last')
             => /\ \A c \in Collaborators : last'.calls[c] = 1
                /\ appData'.hash = appData.hash
                /\ appData'.hash # last'.cur
          /\ Aborted(last) /\ appData.hash = last.stored
               /\ last'.leader /\ last'.cur = last.cur
             => \A c \in Collaborators : last'.calls[c] = 1]_vars

\* A pass that detected a change as the leader, called the three
\* collaborators and lost leadership before the first write: the stored hash
\* is not the one it read.
C29_Witness ==
    /\ tick # 0
    /\ Aborted(last)
    /\ last.order = <<LeaderYes, <<"call", "prometheus">>, <<"call", "loki">>,
                      <<"call", "grafana">>, LeaderNo, LeaderNo>>
    /\ last.cur \in Hashes
    /\ appData.hash # last.cur

\* C30: whenever a leader pass detects a fingerprint change (the unit is the
\* leader at the change check and the hash read from the marker is not the
\* stored one), it calls the republish operation of each of Prometheus, Loki
\* and Grafana once in that pass, in this order, whichever of the three a
\* relation exists to.
C30_ChangeRepublishesToAll ==
    [][PassStep /\ last'.leader /\ last'.cur # last'.stored
       => /\ \A c \in Collaborators : last'.calls[c] = 1
          /\ SelectSeq(last'.order, LAMBDA e : e[1] = "call")
               = <<<<"call", "prometheus">>, <<"call", "loki">>, <<"call", "grafana">>>>]_vars

\* A leader pass that detected a change while only the relation to Loki
\* existed, and called all three collaborators.
C30_Witness ==
    /\ tick # 0
    /\ last.stage = "done"
    /\ last.leader
    /\ last.cur \in Hashes
    /\ last.cur # last.stored
    /\ last.related = {"loki"}
    /\ last.calls = [c \in Collaborators |-> 1]
    /\ "hash" \in last.wrote

\* What C31 compares of two handlers run on one state under one environment:
\* the pass ran, and unit status, stored hash and republish calls are equal.
SameOutcome(h, ref) ==
    /\ h.log.stage # "none"
    /\ h.status = ref.status
    /\ h.appData.hash = ref.appData.hash
    /\ h.log.calls = ref.log.calls

\* C31: uniform dispatch.  On one external state (container, peer data,
\* leadership, config, marker) and under one environment (sync outcome and the
\* outcomes of the other commands), the handlers of config-changed,
\* upgrade-charm, leader-elected and leader-settings-changed, pebble-ready,
\* start and the relation-joined events each run the pass once and end with
\* the unit status, the stored hash and the republish calls of update-status.
\* The code breaks this in config-changed, see C37.
C31_UniformDispatch ==
    \A e \in PassEnvs, r \in ScanResults, v \in VersionResults :
        LET w == World([e EXCEPT !.scan = r, !.version = v])
            ref == _on_update_status(w)
        IN  /\ ref.log.stage # "none"
            /\ SyncRuns(ref.log) <= 1
            /\ SameOutcome(_on_config_changed(w), ref)
            /\ SameOutcome(_on_upgrade_charm(w), ref)
            /\ SameOutcome(_on_leader_changed(w), ref)
            /\ SameOutcome(_on_git_sync_pebble_ready(w), ref)
            /\ SameOutcome(_on_start(w), ref)
            /\ SameOutcome(_on_relation_joined(w), ref)

\* C37: no lifecycle event handler lets a SyncError escape.  When git-sync
\* fails in the pass the event ends with a Blocked status, and when
\* ssh-keyscan fails during config-changed (the SyncError of
\* _trust_ssh_remote) the event ends with a Blocked status as well, not with
\* an exception.  The code does not catch the second.
C37_NoSyncErrorEscapes ==
    [][HandlerStep /\ ~IsAction(last')
       => /\ last'.raised # "SyncError"
          /\ last'.syncs = <<"SyncError">> => status'.name = "blocked"]_vars

\* C34: on a non-leader unit no pass calls a republish operation of any
\* collaborator, whatever the stored hash, the
\* 'reinit_without_topology_dropdowns' flag and the local marker are.  The
\* code calls Grafana's while the flag is unset, see C1.
C34_FollowerNeverRepublishes ==
    [][PassStep /\ FollowerThroughout
       => /\ last'.calls = NoCalls
          /\ \A i \in 1..Len(last'.order) : last'.order[i][1] # "call"]_vars

\* The fingerprint of a marker file of the model: the hash of a "gitdir"
\* line, the placeholder when there is no file.
FingerprintOf(m) ==
    IF \E h \in Hashes : m = GitDir(h)
    THEN CHOOSE h \in Hashes : m = GitDir(h)
    ELSE _hash_placeholder

\* C35: after every pass that a unit completes as leader through the
\* fingerprint update (container reachable, peer relation present, the sync
\* not failed, leadership held throughout), the stored hash is the
\* fingerprint of the marker as the pass read it: the hash the marker names,
\* or the placeholder when the pass found no marker.
C35_LeaderPassStoresFingerprint ==
    [][(/\ PassStep
        /\ LeaderThroughout
        /\ canConnect /\ peerRel
        /\ last'.stage \in {"unconfigured", "done"})
       => /\ last'.cur = FingerprintOf(repo'.marker)
          /\ appData'.hash = last'.cur
          /\ _stored_get(World(NoEnv), "hash")' = FingerprintOf(repo'.marker)]_vars

\* A leader pass that found another hash stored than the marker names and
\* replaced it.
C35_Witness ==
    /\ tick # 0
    /\ isLeader
    /\ last.leader
    /\ last.stage = "done"
    /\ last.stored \in Hashes
    /\ last.cur \in Hashes
    /\ last.stored # last.cur
    /\ "hash" \in last.wrote
    /\ appData.hash = FingerprintOf(repo.marker)

\* C36: a pass ends with Active status only if the stored hash is present and
\* is not the placeholder at the end of that pass, on a leader and on a
\* follower; a follower that finds a real hash stored ends Active whether its
\* own marker is readable or not.
C36_ActiveOnlyWithStoredHash ==
    [][PassStep /\ last'.stage # "raised"
       => /\ status' = ActiveStatus
             => /\ last'.stage = "done"
                /\ peerRel'
                /\ appData'.hash \notin {None, _hash_placeholder}
          /\ (FollowerThroughout /\ last'.stage = "done" /\ appData.hash \in Hashes)
             => status' = ActiveStatus]_vars

\* A follower whose sync left no marker ended Active on the hash the leader
\* stored.
C36_Witness ==
    /\ tick # 0
    /\ ~isLeader
    /\ ~last.leader
    /\ last.stage = "done"
    /\ repo.marker = NoFile
    /\ last.cur = _hash_placeholder
    /\ appData.hash \in Hashes
    /\ status = ActiveStatus

\* The handler of log l ran ssh-keyscan and the command failed: the handler
\* ended with the exception of the scan, before any git-sync.
ScanFailed(l) ==
    /\ l.raised \in {"SyncError", "APIError", "ChangeError"}
    /\ l.execs # <<>>
    /\ l.execs[1][1] = <<"ssh-keyscan">>
    /\ l.syncs = <<>>

\* C38: if ssh-keyscan fails during config-changed, the known_hosts file and
\* the SSH key file are left exactly as they were: nothing is removed or
\* pushed.  known_hosts is removed only in a handler whose scan succeeded, and
\* is then written again.
C38_FailedScanLeavesFiles ==
    [][HandlerStep
       => /\ ScanFailed(last')
             => /\ knownHosts' = knownHosts
                /\ keyFile' = keyFile
                /\ last'.removed = {}
                /\ last'.pushed = {}
          /\ _known_hosts_file \in last'.removed
             => /\ ~ScanFailed(last')
                /\ _known_hosts_file \in last'.pushed
                /\ knownHosts' # NoFile]_vars

\* A failed scan after another key was configured: known_hosts is still
\* there and the key file still holds the key written before.
C38_Witness ==
    /\ tick # 0
    /\ ScanFailed(last)
    /\ knownHosts # NoFile
    /\ keyFile = <<"k">>
    /\ config.git_ssh_key = <<"n">>

\* C39: SecretGetter.status() reflects the most recent get_value call on the
\* getter, in any sequence of calls: after a call that returned a value the
\* status is not Blocked, and after a call that returned None for a non-empty
\* reference it is Blocked.  The getter of secret_store.py keeps the Blocked
\* status of an earlier call when a later one returns a value.
C39_StatusReflectsLastCall ==
    [][HandlerStep /\ last'.raised = "none"
       => /\ last'.value # None => last'.getter.name # "blocked"
          /\ (last'.value = None /\ Truthy(config.git_ssh_key_secret))
             => last'.getter.name = "blocked"]_vars

\* The status a failed sync leaves: Blocked("Sync failed: ...").
IsSyncFailed(st) ==
    st.name = "blocked" /\ st.message # <<>> /\ st.message[1] = "Sync failed: "

\* The status of a pass that stopped waiting.
IsWaiting(st) == st \in {WaitingForContainer, WaitingForPeerRelation}

\* C32: self-healing across passes.  On a unit whose status was left by a
\* pass that ended Blocked("Sync failed: ...") or waiting, a pass on the
\* leader in which the container is reachable, the peer relation exists,
\* git_repo is set, no sync fails and the marker names a hash has run git-sync
\* once and ends Active with that hash stored.
C32_NextGoodPassHeals ==
    [][(/\ PassStep
        /\ IsSyncFailed(status) \/ IsWaiting(status)
        /\ LeaderThroughout
        /\ canConnect /\ peerRel
        /\ Truthy(config.git_repo)
        /\ last'.syncs # <<"SyncError">>
        /\ \E h \in Hashes : repo'.marker = GitDir(h))
       => /\ last'.found = status
          /\ last'.syncs = <<"ok">>
          /\ last'.stage = "done"
          /\ status' = ActiveStatus
          /\ appData'.hash = FingerprintOf(repo'.marker)]_vars

\* A pass that found the unit Blocked by a failed sync and ended Active with
\* the hash of the marker stored.
C32_Witness ==
    /\ tick # 0
    /\ IsSyncFailed(last.found)
    /\ last.leader
    /\ status = ActiveStatus
    /\ last.syncs = <<"ok">>
    /\ appData.hash \in Hashes
    /\ appData.hash = FingerprintOf(repo.marker)

\* The status a completed pass assigns, from what the pass read: container
\* reachability, the peer relation, git_repo, how the sync ended, and the
\* stored hash once the pass has updated it.
Outcome(connected, peer, repoSet, syncFailed, storedHash) ==
    IF ~connected THEN {WaitingForContainer}
    ELSE IF ~peer THEN {WaitingForPeerRelation}
    ELSE IF ~repoSet THEN {ConfigMissing}
    ELSE IF syncFailed THEN {SyncFailed(SyncError(ErrorText, d)) : d \in {None, <<"e">>}}
    ELSE IF storedHash \in {None, _hash_placeholder} THEN {NoHashFile}
    ELSE {ActiveStatus}

\* C33: every pass that completes without raising assigns the unit status one
\* of the outcomes waiting for the container, waiting for the peer relation,
\* blocked or active (no pass of the code waits for the leader's
\* initialization), and the outcome is a function of the external state read
\* in that pass: it is the same whatever status the pass found.
C33_StatusDerivedFreshEachPass ==
    [][PassStep /\ last'.stage # "raised"
       => /\ last'.found = status
          /\ status' \in Outcome(canConnect, peerRel, Truthy(config.git_repo),
                                 last'.syncs = <<"SyncError">>, appData'.hash)
          /\ IsWaiting(status') \/ status'.name \in {"blocked", "active"}]_vars

\* A pass that found the unit Active and left it waiting for the
\* container: the status found does not survive.
C33_Witness ==
    /\ tick # 0
    /\ last.found = ActiveStatus
    /\ last.stage = "container"
    /\ status = WaitingForContainer

=============================================================================
